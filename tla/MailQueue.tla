------------------------------ MODULE MailQueue ------------------------------
(***************************************************************************)
(* gmail_queue: the trade thread appends mails about its orders, and every *)
(* five seconds the exit thread sends the last one and pops it, in three   *)
(* steps that the trade thread's appends may come between (the queue is a  *)
(* Python list, and nothing locks it; a single list operation is atomic).  *)
(* GmailService.send_email catches every exception of its own, so the      *)
(* handler around the three steps never runs for a mail that fails.        *)
(***************************************************************************)
EXTENDS Integers, SequencesExt

CONSTANTS
  MaxMails,     \* mails the trade thread appends
  MaxFailures,  \* calls of send_email that fail
  MaxRestarts   \* restarts of the worker process

ASSUME MailAssumption == MaxMails \in Nat /\ MaxFailures \in Nat /\ MaxRestarts \in Nat

VARIABLES
  queue,        \* gmail_queue, of mails numbered in the order of their appending
  appended,     \* how many mails have been appended
  pc,           \* the exit thread's next step: "len", "send" or "pop"
  last,         \* its local queue_len
  sent,         \* sent[m]: how often mail m has gone out
  failures, restarts,
  missed,       \* history: mails whose send_email failed
  dropped       \* history: mails that were queued when the worker was killed

vars == <<queue, appended, pc, last, sent, failures, restarts, missed, dropped>>

Mails == 1 .. MaxMails

Init ==
  /\ queue = << >> /\ appended = 0
  /\ pc = "len" /\ last = 0
  /\ sent = [m \in Mails |-> 0]
  /\ failures = 0 /\ restarts = 0
  /\ missed = {} /\ dropped = {}

\* Of the trade thread: an order list, a trailed stop, the positions.
Enqueue ==
  /\ appended < MaxMails
  /\ appended' = appended + 1
  /\ queue' = Append(queue, appended + 1)
  /\ UNCHANGED <<pc, last, sent, failures, restarts, missed, dropped>>

\* Mutant of Waiting: without `if queue_len > 0`.
WaitingOrNot == Len(queue) >= 0

Waiting == Len(queue) > 0

ReadLength ==
  /\ pc = "len"
  /\ Waiting
  /\ last' = Len(queue)
  /\ pc' = "send"
  /\ UNCHANGED <<queue, appended, sent, failures, restarts, missed, dropped>>

\* send_email of gmail_queue[queue_len - 1].  A failure, before or after the
\* mail has gone out, is printed inside send_email and goes unnoticed here.
Send ==
  /\ pc = "send"
  /\ pc' = "pop"
  /\ LET out == [sent EXCEPT ![queue[last]] = @ + 1]
     IN \/ /\ sent' = out
           /\ UNCHANGED <<failures, missed>>
        \/ /\ failures < MaxFailures
           /\ failures' = failures + 1
           /\ sent' \in {sent, out}
           /\ missed' = missed \cup {queue[last]}
  /\ UNCHANGED <<queue, appended, last, restarts, dropped>>

\* Mutant of Popped: pop() takes the last element there is now.
PoppedLast(q) == RemoveAt(q, Len(q))

\* pop(queue_len - 1)
Popped(q) == RemoveAt(q, last)

Pop ==
  /\ pc = "pop"
  /\ queue' = Popped(queue)
  /\ pc' = "len"
  /\ UNCHANGED <<appended, last, sent, failures, restarts, missed, dropped>>

\* The queue lives in the worker's memory.
Restart ==
  /\ restarts < MaxRestarts
  /\ restarts' = restarts + 1
  /\ dropped' = dropped \cup ToSet(queue)
  /\ queue' = << >>
  /\ pc' = "len" /\ last' = 0
  /\ UNCHANGED <<appended, sent, failures, missed>>

Next == Enqueue \/ ReadLength \/ Send \/ Pop \/ Restart

Spec == Init /\ [][Next]_vars
FairSpec == Spec /\ WF_vars(ReadLength \/ Send \/ Pop)
-----------------------------------------------------------------------------
\* The types; the index that is sent and popped is always one of the queue's.
TypeOK ==
  /\ queue \in Seq(Mails) /\ appended \in 0 .. MaxMails
  /\ pc \in {"len", "send", "pop"}
  /\ last \in Nat /\ (pc # "len" => last \in 1 .. Len(queue))
  /\ sent \in [Mails -> Nat]
  /\ failures \in 0 .. MaxFailures /\ restarts \in 0 .. MaxRestarts
  /\ missed \subseteq Mails /\ dropped \subseteq Mails

\* An append between the length and the pop takes no mail out that send_email
\* was not given: what is gone was sent, or failed, or died with the worker.
NothingIsLost ==
  \A m \in 1 .. appended :
    m \in ToSet(queue) \/ sent[m] > 0 \/ m \in missed \/ m \in dropped

\* Nor does it send a mail twice.
SentOnce == \A m \in Mails : sent[m] <= 1

\* Newer mails are sent first, but in the end every mail has its turn that the
\* worker outlives.
EveryMailGoesOut ==
  \A m \in Mails : m \in ToSet(queue) ~> (sent[m] > 0 \/ m \in missed \/ m \in dropped)

\* "Failed while sending email from queue" (dhan_manager.py:2619): the handler
\* around send and pop says that a mail that fails is not popped.
FailedMailStays == \A m \in missed : sent[m] > 0 \/ m \in ToSet(queue) \/ m \in dropped
=============================================================================
