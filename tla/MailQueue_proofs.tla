-------------------------- MODULE MailQueue_proofs --------------------------
(***************************************************************************)
(* No mail is lost and none is sent twice, for any number of mails,        *)
(* failures and restarts.                                                  *)
(***************************************************************************)
EXTENDS MailQueue, SequenceTheorems, TLAPS

\* Popping takes one element away and keeps every other.
LEMMA PopKeepsOthers ==
  ASSUME NEW S, NEW q \in Seq(S), NEW i \in 1 .. Len(q)
  PROVE  /\ RemoveAt(q, i) \in Seq(S)
         /\ Len(RemoveAt(q, i)) = Len(q) - 1
         /\ \A k \in 1 .. Len(q) : k # i => q[k] \in ToSet(RemoveAt(q, i))
        /\ \A k \in 1 .. Len(q) - 1 :
             RemoveAt(q, i)[k] = IF k < i THEN q[k] ELSE q[k + 1]
<1> DEFINE r == RemoveAt(q, i)
<1>1. /\ r \in Seq(S) /\ Len(r) = Len(q) - 1
      /\ \A k \in 1 .. Len(r) : r[k] = IF k < i THEN q[k] ELSE q[k + 1]
  <2> DEFINE a == SubSeq(q, 1, i - 1)
             b == SubSeq(q, i + 1, Len(q))
  <2>1. /\ a \in Seq(S) /\ Len(a) = i - 1
        /\ \A k \in 1 .. i - 1 : a[k] = q[k]
    OBVIOUS
  <2>2. /\ b \in Seq(S) /\ Len(b) = Len(q) - i
        /\ \A k \in 1 .. Len(q) - i : b[k] = q[i + k]
    OBVIOUS
  <2>3. r = a \o b
    BY DEF RemoveAt
  <2> HIDE DEF a, b, r
  <2>4. r \in Seq(S) /\ Len(r) = Len(q) - 1
    <3>1. r \in Seq(S) /\ Len(r) = Len(a) + Len(b)
      BY <2>1, <2>2, <2>3, ConcatProperties
    <3>2. QED
      BY <2>1, <2>2, <3>1
  <2>5. ASSUME NEW k \in 1 .. Len(r)
        PROVE  r[k] = IF k < i THEN q[k] ELSE q[k + 1]
    <3>1. r[k] = IF k <= Len(a) THEN a[k] ELSE b[k - Len(a)]
      BY <2>1, <2>2, <2>3, <2>4
    <3>2. CASE k < i
      BY <2>1, <2>4, <3>1, <3>2
    <3>3. CASE k >= i
      <4>1. k - (i - 1) \in 1 .. Len(q) - i /\ i + (k - (i - 1)) = k + 1
        BY <2>4, <3>3
      <4>2. r[k] = b[k - (i - 1)]
        BY <2>1, <3>1, <3>3
      <4>3. b[k - (i - 1)] = q[k + 1]
        BY <2>2, <4>1
      <4>4. QED
        BY <3>3, <4>2, <4>3
    <3>4. QED
      BY <2>4, <3>2, <3>3
  <2>6. QED
    BY <2>4, <2>5 DEF r
<1>2. ASSUME NEW k \in 1 .. Len(q), k # i PROVE q[k] \in ToSet(r)
  <2>1. CASE k < i
    <3>1. k \in 1 .. Len(r) /\ r[k] = q[k]
      BY <1>1, <2>1
    <3>2. QED
      BY <1>1, <3>1 DEF ToSet
  <2>2. CASE k > i
    <3>1. k - 1 \in 1 .. Len(r) /\ r[k - 1] = q[k]
      BY <1>1, <2>2
    <3>2. QED
      BY <1>1, <3>1 DEF ToSet
  <2>3. QED
    BY <1>2, <2>1, <2>2
<1>3. QED
  BY <1>1, <1>2

\* Appending adds the new mail and keeps the others where they are.
LEMMA AppendKeeps ==
  ASSUME NEW S, NEW q \in Seq(S), NEW m \in S
  PROVE  /\ Append(q, m) \in Seq(S) /\ Len(Append(q, m)) = Len(q) + 1
         /\ \A k \in 1 .. Len(q) : Append(q, m)[k] = q[k]
         /\ m \in ToSet(Append(q, m)) /\ ToSet(q) \subseteq ToSet(Append(q, m))
<1>1. /\ Append(q, m) \in Seq(S) /\ Len(Append(q, m)) = Len(q) + 1
      /\ \A k \in 1 .. Len(q) : Append(q, m)[k] = q[k]
      /\ Append(q, m)[Len(q) + 1] = m
  OBVIOUS
<1>2. DOMAIN q = 1 .. Len(q) /\ DOMAIN Append(q, m) = 1 .. Len(q) + 1
  BY <1>1
<1>3. QED
  BY <1>1, <1>2 DEF ToSet

-----------------------------------------------------------------------------
\* NothingIsLost is not inductive: that a mail is popped only after its turn
\* has to be carried from the one step to the other.
PopsTheTried == pc = "pop" => sent[queue[last]] > 0 \/ queue[last] \in missed

MailInv == TypeOK /\ PopsTheTried /\ NothingIsLost

\* The worker starts with an empty queue.
LEMMA InitMail == Init => MailInv
  BY MailAssumption DEF Init, MailInv, TypeOK, PopsTheTried, NothingIsLost, Mails

\* Every step keeps MailInv.
LEMMA NextMail == MailInv /\ [Next]_vars => MailInv'
<1> SUFFICES ASSUME MailInv, [Next]_vars PROVE MailInv'
  OBVIOUS
<1> USE MailAssumption DEF MailInv
<1>0. Len(queue) \in Nat /\ \A k \in 1 .. Len(queue) : queue[k] \in Mails
  BY DEF TypeOK
<1>1. CASE Enqueue
  <2>1. appended + 1 \in Mails /\ queue' = Append(queue, appended + 1)
    BY <1>1 DEF Enqueue, TypeOK, Mails
  <2>2. /\ queue' \in Seq(Mails) /\ Len(queue') = Len(queue) + 1
        /\ \A k \in 1 .. Len(queue) : queue'[k] = queue[k]
        /\ appended + 1 \in ToSet(queue') /\ ToSet(queue) \subseteq ToSet(queue')
    BY <2>1, AppendKeeps DEF TypeOK
  <2>3. TypeOK'
    BY <1>0, <1>1, <2>1, <2>2 DEF Enqueue, TypeOK, Mails
  <2>4. PopsTheTried'
    BY <1>1, <2>2 DEF Enqueue, TypeOK, PopsTheTried
  <2>5. NothingIsLost'
    BY <1>1, <2>2 DEF Enqueue, TypeOK, NothingIsLost
  <2>6. QED
    BY <2>3, <2>4, <2>5
<1>2. CASE ReadLength
  BY <1>0, <1>2 DEF ReadLength, Waiting, TypeOK, PopsTheTried, NothingIsLost
<1>3. CASE Send
  <2>1. /\ pc = "send" /\ pc' = "pop" /\ last \in 1 .. Len(queue) /\ queue[last] \in Mails
        /\ UNCHANGED <<queue, appended, last, restarts, dropped>>
    BY <1>0, <1>3 DEF Send, TypeOK
  <2>2. \/ /\ sent' = [sent EXCEPT ![queue[last]] = @ + 1]
           /\ missed' = missed /\ failures' = failures
        \/ /\ sent' = sent \/ sent' = [sent EXCEPT ![queue[last]] = @ + 1]
           /\ missed' = missed \cup {queue[last]}
           /\ failures < MaxFailures /\ failures' = failures + 1
    BY <1>3 DEF Send
  <2>3. /\ sent' \in [Mails -> Nat] /\ \A m \in Mails : sent'[m] >= sent[m]
        /\ missed' \subseteq Mails /\ missed \subseteq missed'
    BY <2>1, <2>2 DEF TypeOK
  <2>4. failures' \in 0 .. MaxFailures
    BY <2>2 DEF TypeOK
  <2>5. TypeOK'
    BY <2>1, <2>3, <2>4 DEF TypeOK
  <2>6. PopsTheTried'
    BY <2>1, <2>2 DEF PopsTheTried, TypeOK
  <2>7. NothingIsLost'
    BY <2>1, <2>3 DEF NothingIsLost, TypeOK, Mails
  <2>8. QED
    BY <2>5, <2>6, <2>7
<1>4. CASE Pop
  <2>1. /\ pc = "pop" /\ pc' = "len" /\ last \in 1 .. Len(queue)
        /\ queue' = RemoveAt(queue, last)
        /\ sent[queue[last]] > 0 \/ queue[last] \in missed
        /\ UNCHANGED <<appended, last, sent, failures, restarts, missed, dropped>>
    BY <1>4 DEF Pop, Popped, TypeOK, PopsTheTried
  <2>2. /\ queue' \in Seq(Mails)
        /\ \A k \in 1 .. Len(queue) : k # last => queue[k] \in ToSet(queue')
    BY <2>1, PopKeepsOthers DEF TypeOK
  <2>3. \A m \in ToSet(queue) : m \in ToSet(queue') \/ sent[m] > 0 \/ m \in missed
    <3>1. DOMAIN queue = 1 .. Len(queue)
      BY DEF TypeOK
    <3>2. QED
      BY <2>1, <2>2, <3>1 DEF ToSet
  <2>4. QED
    BY <2>1, <2>2, <2>3 DEF TypeOK, PopsTheTried, NothingIsLost
<1>5. CASE Restart
  <2>1. ToSet(queue) \subseteq Mails
    <3>1. DOMAIN queue = 1 .. Len(queue)
      BY DEF TypeOK
    <3>2. QED
      BY <1>0, <3>1 DEF ToSet
  <2>2. QED
    BY <1>5, <2>1 DEF Restart, TypeOK, PopsTheTried, NothingIsLost
<1>6. CASE UNCHANGED vars
  BY <1>6 DEF vars, TypeOK, PopsTheTried, NothingIsLost
<1>7. QED
  BY <1>1, <1>2, <1>3, <1>4, <1>5, <1>6 DEF Next

\* The types: whatever the trade thread appends in between, the index that is sent and popped is one of
\* the queue's.
THEOREM TypeCorrect == Spec => []TypeOK
<1>1. MailInv => TypeOK
  BY DEF MailInv
<1>2. QED
  BY <1>1, InitMail, NextMail, PTL DEF Spec

\* Whatever the trade thread appends between the exit thread's steps, a mail
\* leaves the queue only after it was sent or failed, or with the worker.
THEOREM NoMailIsLost == Spec => []NothingIsLost
<1>1. MailInv => NothingIsLost
  BY DEF MailInv
<1>2. QED
  BY <1>1, InitMail, NextMail, PTL DEF Spec

-----------------------------------------------------------------------------
\* That no mail is sent twice needs the order of the queue: its mails differ,
\* and only the one about to be popped may have gone out.
Ordered ==
  /\ \A k \in 1 .. Len(queue) : queue[k] <= appended
  /\ \A j, k \in 1 .. Len(queue) : j < k => queue[j] < queue[k]
Fresh ==
  /\ \A m \in Mails : m > appended => sent[m] = 0
  /\ \A k \in 1 .. Len(queue) : sent[queue[k]] = 0 \/ (pc = "pop" /\ k = last)

OnceInv == Ordered /\ Fresh /\ SentOnce

\* Nothing is queued or sent at the start.
LEMMA InitOnce == Init => OnceInv
  BY DEF Init, OnceInv, Ordered, Fresh, SentOnce

\* Every step keeps OnceInv.
LEMMA NextOnce == MailInv /\ OnceInv /\ [Next]_vars => OnceInv'
<1> SUFFICES ASSUME TypeOK, OnceInv, [Next]_vars PROVE OnceInv'
  BY DEF MailInv
<1> USE DEF OnceInv
<1>0. /\ Len(queue) \in Nat /\ \A k \in 1 .. Len(queue) : queue[k] \in Mails
      /\ Mails \subseteq Nat
  BY MailAssumption DEF TypeOK, Mails
<1>1. CASE Enqueue
  <2>1. appended \in Nat /\ appended + 1 \in Mails /\ queue' = Append(queue, appended + 1)
    BY <1>1, MailAssumption DEF Enqueue, TypeOK, Mails
  <2>2. /\ Len(queue') = Len(queue) + 1 /\ queue'[Len(queue) + 1] = appended + 1
        /\ \A k \in 1 .. Len(queue) : queue'[k] = queue[k]
    BY <2>1 DEF TypeOK
  <2>3. appended' = appended + 1 /\ UNCHANGED <<pc, last, sent>>
    BY <1>1 DEF Enqueue
  <2>4. Ordered'
    <3>1. ASSUME NEW k \in 1 .. Len(queue') PROVE queue'[k] <= appended'
      <4>1. CASE k = Len(queue) + 1
        BY <2>1, <2>2, <2>3, <4>1
      <4>2. CASE k \in 1 .. Len(queue)
        <5>1. queue[k] \in Nat /\ queue[k] <= appended
          BY <1>0, <4>2 DEF Ordered
        <5>2. QED
          BY <2>1, <2>2, <2>3, <4>2, <5>1
      <4>3. QED
        BY <1>0, <2>2, <4>1, <4>2
    <3>2. ASSUME NEW j \in 1 .. Len(queue'), NEW k \in 1 .. Len(queue'), j < k
          PROVE  queue'[j] < queue'[k]
      <4>1. j \in 1 .. Len(queue) /\ queue'[j] = queue[j] /\ queue[j] <= appended
        BY <1>0, <2>2, <3>2 DEF Ordered
      <4>2. queue[j] \in Nat
        BY <1>0, <4>1
      <4>3. CASE k = Len(queue) + 1
        BY <2>1, <2>2, <4>1, <4>2, <4>3
      <4>4. CASE k \in 1 .. Len(queue)
        BY <2>2, <3>2, <4>1, <4>4 DEF Ordered
      <4>5. QED
        BY <1>0, <2>2, <4>3, <4>4
    <3>3. QED
      BY <3>1, <3>2 DEF Ordered
  <2>5. Fresh' /\ SentOnce'
    BY <1>0, <2>1, <2>2, <2>3 DEF Fresh, SentOnce
  <2>6. QED
    BY <2>4, <2>5
<1>2. CASE ReadLength
  BY <1>2 DEF ReadLength, Ordered, Fresh, SentOnce
<1>3. CASE Send
  <2>1. /\ pc = "send" /\ pc' = "pop" /\ last \in 1 .. Len(queue) /\ queue[last] \in Mails
        /\ UNCHANGED <<queue, appended, last>>
    BY <1>0, <1>3 DEF Send, TypeOK
  <2>2. sent' = sent \/ sent' = [sent EXCEPT ![queue[last]] = @ + 1]
    BY <1>3 DEF Send
  <2>3. sent[queue[last]] = 0 /\ queue[last] <= appended
    BY <2>1 DEF Fresh, Ordered
  <2>4. \A m \in Mails : m # queue[last] => sent'[m] = sent[m]
    BY <2>2 DEF TypeOK
  <2>5. sent'[queue[last]] <= 1
    BY <2>1, <2>2, <2>3 DEF TypeOK
  <2>6. ASSUME NEW k \in 1 .. Len(queue), k # last
        PROVE  queue[k] # queue[last]
    <3>1. queue[k] \in Nat /\ queue[last] \in Nat
      BY <1>0, <2>1
    <3>2. k < last \/ last < k
      BY <2>1, <2>6
    <3>3. QED
      BY <2>1, <3>1, <3>2 DEF Ordered
  <2>7. \A m \in Mails : m > appended => m # queue[last]
    BY <1>0, <2>1, <2>3 DEF TypeOK
  <2>8. Ordered'
    BY <2>1 DEF Ordered
  <2>9. Fresh'
    BY <1>0, <2>1, <2>4, <2>6, <2>7 DEF Fresh
  <2>10. SentOnce'
    BY <2>4, <2>5 DEF SentOnce
  <2>11. QED
    BY <2>8, <2>9, <2>10
<1>4. CASE Pop
  <2>1. /\ pc = "pop" /\ last \in 1 .. Len(queue) /\ queue' = RemoveAt(queue, last)
        /\ UNCHANGED <<appended, sent>>
    BY <1>4 DEF Pop, Popped, TypeOK
  <2>2. /\ Len(queue') = Len(queue) - 1
        /\ \A k \in 1 .. Len(queue) - 1 :
             queue'[k] = IF k < last THEN queue[k] ELSE queue[k + 1]
    BY <2>1, PopKeepsOthers DEF TypeOK
  <2> DEFINE old(k) == IF k < last THEN k ELSE k + 1
  <2>0. \A k \in 1 .. Len(queue') :
          /\ old(k) \in 1 .. Len(queue) /\ old(k) # last
          /\ queue'[k] = queue[old(k)]
    BY <1>0, <2>1, <2>2
  <2>3. Ordered'
    <3>1. ASSUME NEW k \in 1 .. Len(queue') PROVE queue'[k] <= appended'
      BY <2>0, <2>1 DEF Ordered
    <3>2. ASSUME NEW j \in 1 .. Len(queue'), NEW k \in 1 .. Len(queue'), j < k
          PROVE  queue'[j] < queue'[k]
      <4>1. old(j) < old(k)
        BY <1>0, <2>1, <2>2, <3>2
      <4>2. queue[old(j)] < queue[old(k)]
        BY <2>0, <4>1 DEF Ordered
      <4>3. QED
        BY <2>0, <4>2
    <3>3. QED
      BY <3>1, <3>2 DEF Ordered
  <2>4. Fresh'
    <3>1. ASSUME NEW k \in 1 .. Len(queue') PROVE sent'[queue'[k]] = 0
      BY <2>0, <2>1 DEF Fresh
    <3>2. QED
      BY <2>1, <3>1 DEF Fresh
  <2>5. QED
    BY <2>1, <2>3, <2>4 DEF SentOnce
<1>5. CASE Restart
  BY <1>5 DEF Restart, Ordered, Fresh, SentOnce
<1>6. CASE UNCHANGED vars
  BY <1>6 DEF vars, Ordered, Fresh, SentOnce
<1>7. QED
  BY <1>1, <1>2, <1>3, <1>4, <1>5, <1>6 DEF Next

\* No mail goes out twice: a mail has one turn, successful or not.
THEOREM NoMailIsSentTwice == Spec => []SentOnce
<1>1. Init => MailInv /\ OnceInv
  BY InitMail, InitOnce
<1>2. MailInv /\ OnceInv /\ [Next]_vars => (MailInv /\ OnceInv)'
  BY NextMail, NextOnce
<1>3. MailInv /\ OnceInv => SentOnce
  BY DEF OnceInv
<1>4. QED
  BY <1>1, <1>2, <1>3, PTL DEF Spec
=============================================================================
