------------------------------- MODULE Notifier -------------------------------
(***************************************************************************)
(* notify.Telegram: the goroutine of the bot hands messages over to a      *)
(* bounded queue, waiting for room only with those that must be delivered; *)
(* the goroutine dispatch sends them, each at most MaxSends times; Close   *)
(* drains the queue.  Message n is the n-th that is handed over.           *)
(***************************************************************************)
EXTENDS Naturals, Sequences

CONSTANTS
    Messages,    \* bound: how many messages are handed over
    QueueSize,   \* TelegramConfig.QueueSize
    MaxSends     \* the attempts of send, 3

ASSUME NotifierAssumption ==
    /\ Messages \in Nat
    /\ QueueSize \in Nat \ {0}
    /\ MaxSends \in Nat \ {0}

VARIABLES
    caller,      \* Info, Warn, Alert, Report and Close
    last,        \* the last message handed over
    critical,    \* those of them that must be delivered: alerts and reports
    queue,       \* the channel of messages
    done,        \* the channel that Close closes
    cancelled,   \* is the context of the caller cancelled?
    worker,      \* dispatch and send
    arrived,     \* the last message Telegram received, and how often
    fate         \* history: what became of each message

notifierVars == <<caller, last, critical, queue, done, cancelled, worker, arrived, fate>>

Numbers == 1..Messages

(* "sent": Telegram said so; "audited": given up with a risk event, whose   *)
(* own failure is only logged; "gone": given up without one; "cut": Close   *)
(* came while it waited to be sent again.                                  *)
Fates == {"open", "sent", "audited", "gone", "cut"}

Workers == [pc: {"select", "send", "delay", "finished"}, item: 0..Messages, attempt: 0..MaxSends,
            draining: BOOLEAN]

NotifierTypeOK ==
    /\ caller \in {"idle", "blocked", "closing", "ended"}
    /\ last \in 0..Messages
    /\ critical \subseteq 1..last
    /\ queue \in Seq(Numbers)
    /\ Len(queue) <= QueueSize
    /\ done \in BOOLEAN
    /\ cancelled \in BOOLEAN
    /\ worker \in Workers
    /\ arrived \in [item: 0..Messages, times: 0..MaxSends]
    /\ fate \in [Numbers -> Fates]

NotifierInit ==
    /\ caller = "idle"
    /\ last = 0
    /\ critical = {}
    /\ queue = <<>>
    /\ done = FALSE
    /\ cancelled = FALSE
    /\ worker = [pc |-> "select", item |-> 0, attempt |-> 0, draining |-> FALSE]
    /\ arrived = [item |-> 0, times |-> 0]
    /\ fate = [n \in Numbers |-> "open"]

Room == Len(queue) < QueueSize

Becomes(n, outcome) == fate' = [fate EXCEPT ![n] = outcome]

(* Telegram receives the message in hand. *)
Arrived ==
    [item |-> worker.item,
     times |-> IF arrived.item = worker.item THEN arrived.times + 1 ELSE 1]

-----------------------------------------------------------------------------
(* The caller: enqueueText and Close. *)

(* Info and Warn never wait: without room the message is dropped. *)
Notify ==
    /\ caller = "idle" /\ last < Messages
    /\ last' = last + 1
    /\ \/ Room /\ queue' = Append(queue, last + 1) /\ UNCHANGED fate
       \/ ~Room /\ Becomes(last + 1, "audited") /\ UNCHANGED queue
    /\ UNCHANGED <<caller, critical, done, cancelled, worker, arrived>>

(* Alert and Report. *)
NotifyCritical ==
    /\ caller = "idle" /\ last < Messages
    /\ last' = last + 1
    /\ critical' = critical \cup {last + 1}
    /\ caller' = "blocked"
    /\ UNCHANGED <<queue, done, cancelled, worker, arrived, fate>>

Enqueue ==
    /\ caller = "blocked" /\ Room
    /\ queue' = Append(queue, last)
    /\ caller' = "idle"
    /\ UNCHANGED <<last, critical, done, cancelled, worker, arrived, fate>>

(* The context is cancelled, or mustDeliverEnqueueTimeout passes without    *)
(* room.                                                                   *)
GiveUp ==
    /\ caller = "blocked"
    /\ cancelled \/ ~Room
    /\ Becomes(last, "audited")
    /\ caller' = "idle"
    /\ UNCHANGED <<last, critical, queue, done, cancelled, worker, arrived>>

(* A signal stops the bot. *)
CancelContext ==
    /\ ~cancelled
    /\ cancelled' = TRUE
    /\ UNCHANGED <<caller, last, critical, queue, done, worker, arrived, fate>>

Close ==
    /\ caller = "idle"
    /\ done' = TRUE
    /\ caller' = "closing"
    /\ UNCHANGED <<last, critical, queue, cancelled, worker, arrived, fate>>

CloseReturns ==
    /\ caller = "closing" /\ worker.pc = "finished"
    /\ caller' = "ended"
    /\ UNCHANGED <<last, critical, queue, done, cancelled, worker, arrived, fate>>

-----------------------------------------------------------------------------
(* The goroutine dispatch: Go picks any of the channels that are ready. *)

(* Mutant: the message stays in the queue until it is sent. *)
ReceivePeek ==
    /\ worker.pc = "select" /\ queue # <<>>
    /\ worker' = [worker EXCEPT !.pc = "send", !.item = Head(queue), !.attempt = 0]
    /\ UNCHANGED <<caller, last, critical, queue, done, cancelled, arrived, fate>>

Receive ==
    /\ worker.pc = "select" /\ queue # <<>>
    /\ worker' = [worker EXCEPT !.pc = "send", !.item = Head(queue), !.attempt = 0]
    /\ queue' = Tail(queue)
    /\ UNCHANGED <<caller, last, critical, done, cancelled, arrived, fate>>

SeesDone ==
    /\ worker.pc = "select" /\ done /\ ~worker.draining
    /\ worker' = [worker EXCEPT !.draining = TRUE]
    /\ UNCHANGED <<caller, last, critical, queue, done, cancelled, arrived, fate>>

(* Mutant: done ends the loop with messages in the queue. *)
FinishAtOnce ==
    /\ worker.pc = "select" /\ worker.draining
    /\ worker' = [worker EXCEPT !.pc = "finished"]
    /\ UNCHANGED <<caller, last, critical, queue, done, cancelled, arrived, fate>>

Finish ==
    /\ worker.pc = "select" /\ worker.draining /\ queue = <<>>
    /\ worker' = [worker EXCEPT !.pc = "finished"]
    /\ UNCHANGED <<caller, last, critical, queue, done, cancelled, arrived, fate>>

-----------------------------------------------------------------------------
(* send. *)

Selecting == [worker EXCEPT !.pc = "select", !.item = 0, !.attempt = 0]

Sent ==
    /\ worker.pc = "send"
    /\ arrived' = Arrived
    /\ Becomes(worker.item, "sent")
    /\ worker' = Selecting
    /\ UNCHANGED <<caller, last, critical, queue, done, cancelled>>

(* An error; after a timeout the message may have arrived. *)
SendErrs ==
    /\ worker.pc = "send"
    /\ arrived' \in {arrived, Arrived}
    /\ worker' = [worker EXCEPT !.pc = "delay", !.attempt = @ + 1]
    /\ UNCHANGED <<caller, last, critical, queue, done, cancelled, fate>>

(* Mutant: one attempt too many. *)
SendAgainOnceMore ==
    /\ worker.pc = "delay" /\ worker.attempt <= MaxSends
    /\ worker' = [worker EXCEPT !.pc = "send"]
    /\ UNCHANGED <<caller, last, critical, queue, done, cancelled, arrived, fate>>

(* Mutant: a message that failed goes to the end of the queue. *)
SendAgainLater ==
    /\ worker.pc = "delay" /\ worker.attempt < MaxSends /\ Room
    /\ queue' = Append(queue, worker.item)
    /\ worker' = Selecting
    /\ UNCHANGED <<caller, last, critical, done, cancelled, arrived, fate>>

SendAgain ==
    /\ worker.pc = "delay" /\ worker.attempt < MaxSends
    /\ worker' = [worker EXCEPT !.pc = "send"]
    /\ UNCHANGED <<caller, last, critical, queue, done, cancelled, arrived, fate>>

(* Mutant: the audit is only written when the queue is full. *)
SendFailedSilently ==
    /\ worker.pc = "delay" /\ worker.attempt = MaxSends
    /\ Becomes(worker.item, "gone")
    /\ worker' = Selecting
    /\ UNCHANGED <<caller, last, critical, queue, done, cancelled, arrived>>

SendFailed ==
    /\ worker.pc = "delay" /\ worker.attempt = MaxSends
    /\ Becomes(worker.item, IF worker.item \in critical THEN "audited" ELSE "gone")
    /\ worker' = Selecting
    /\ UNCHANGED <<caller, last, critical, queue, done, cancelled, arrived>>

(* Close interrupts the delay, and the message is not tried again. *)
Interrupted ==
    /\ worker.pc = "delay" /\ done
    /\ Becomes(worker.item, "cut")
    /\ worker' = Selecting
    /\ UNCHANGED <<caller, last, critical, queue, done, cancelled, arrived>>

-----------------------------------------------------------------------------
Waiting == Enqueue \/ GiveUp \/ CloseReturns

Caller == Notify \/ NotifyCritical \/ Close \/ Waiting

Dispatch ==
    \/ Receive \/ SeesDone \/ Finish
    \/ Sent \/ SendErrs \/ SendAgain \/ SendFailed \/ Interrupted

NotifierNext == Caller \/ CancelContext \/ Dispatch

NotifierSpec == NotifierInit /\ [][NotifierNext]_notifierVars

(* A request to Telegram ends (RequestTimeout) and so does every delay; a   *)
(* caller that waits is woken by room, its context or its timer.           *)
FairSpec == NotifierSpec /\ WF_notifierVars(Waiting) /\ WF_notifierVars(Dispatch)

-----------------------------------------------------------------------------
(* Properties. *)

(* What Telegram shows is in the order of the calls, whatever is dropped   *)
(* or sent again.                                                          *)
InOrder == [][arrived'.item >= arrived.item]_arrived

(* An alert or a report that is given up is put on record, unless the bot   *)
(* was closing.                                                            *)
CriticalOnRecord ==
    \A n \in critical :
        /\ fate[n] # "gone"
        /\ fate[n] = "cut" => done

(* The queue and the message in hand, seen as an outbox. *)
InHand == worker.pc \in {"send", "delay"}

Pending == IF InHand THEN <<worker.item>> \o queue ELSE queue

Handed == IF caller = "blocked" THEN last - 1 ELSE last

Phase ==
    CASE caller = "closing" -> "shutting"
      [] caller = "ended" -> "shut"
      [] OTHER -> "open"

Box == INSTANCE Outbox WITH
    Capacity <- QueueSize,
    last <- Handed,
    pending <- Pending,
    stopping <- cancelled,
    phase <- Phase

(* Each message handed over is taken in or refused for a reason, what is   *)
(* taken in is dealt with once and in order, and nothing is in the queue or *)
(* in hand when Close has returned, after which the process ends.          *)
ImplementsOutbox == Box!Spec

(* The scheduler is never held up for good by Telegram: a call that waits  *)
(* for room returns, and so does Close.                                    *)
CallsReturn ==
    /\ caller = "blocked" ~> caller = "idle"
    /\ caller = "closing" ~> caller = "ended"

(* Every message that was taken in is dealt with. *)
DealtWith ==
    \A n \in Numbers :
        (\E i \in DOMAIN queue : queue[i] = n) ~> fate[n] # "open"
===============================================================================
