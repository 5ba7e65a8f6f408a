------------------------------- MODULE JobRunner -------------------------------
(***************************************************************************)
(* What TypingScheduler promises the controller, without saying how: at    *)
(* most one job executes at a time; its events are performed once each and *)
(* in order; once an abort or a pause has been requested at most the event *)
(* already in progress is finished; a job that reports COMPLETED performed *)
(* every event, one that reports ABORTED was asked to.                     *)
(***************************************************************************)
EXTENDS Naturals

CONSTANTS Worker,    \* worker threads; a thread is reused once it has ended
          Lengths    \* the lengths a plan may have

RunStatus == {"COMPLETED", "ABORTED", "FAILED"}

VARIABLES
    stage,      \* stage[w]: none, working, paused, or ended (result not delivered)
    total,      \* total[w]: the number of events of w's plan
    done,       \* done[w]: how many of them were performed
    status,     \* status[w]: how an ended job ended
    pauseReq,   \* a pause is requested
    abortReq,   \* an abort is requested
    grace       \* events finished since the request in force was made

vars == <<stage, total, done, status, pauseReq, abortReq, grace>>

Executing(w) == stage[w] \in {"working", "paused"}

TypeOK ==
    /\ stage \in [Worker -> {"none", "working", "paused", "ended"}]
    /\ total \in [Worker -> Lengths \cup {0}]
    /\ done \in [Worker -> Nat]
    /\ status \in [Worker -> RunStatus]
    /\ pauseReq \in BOOLEAN /\ abortReq \in BOOLEAN
    /\ grace \in {0, 1}

Init ==
    /\ stage = [w \in Worker |-> "none"]
    /\ total = [w \in Worker |-> 0]
    /\ done = [w \in Worker |-> 0]
    /\ status = [w \in Worker |-> "COMPLETED"]
    /\ pauseReq = FALSE /\ abortReq = FALSE /\ grace = 0

-----------------------------------------------------------------------------
\* A starter first withdraws the requests of the job before ...
Withdraw ==
    /\ \A w \in Worker : ~Executing(w)
    /\ pauseReq' = FALSE /\ abortReq' = FALSE /\ grace' = 0
    /\ UNCHANGED <<stage, total, done, status>>

\* ... and then starts its own.
Start(w) ==
    /\ \A v \in Worker : ~Executing(v)
    /\ stage[w] = "none"
    /\ stage' = [stage EXCEPT ![w] = "working"]
    /\ \E n \in Lengths : total' = [total EXCEPT ![w] = n]
    /\ UNCHANGED <<done, status, pauseReq, abortReq, grace>>

RequestPause ==
    /\ pauseReq' = TRUE
    /\ grace' = IF pauseReq \/ abortReq THEN grace ELSE 0
    /\ UNCHANGED <<stage, total, done, status, abortReq>>

RequestResume ==
    /\ pauseReq' = FALSE
    /\ grace' = IF abortReq THEN grace ELSE 0
    /\ UNCHANGED <<stage, total, done, status, abortReq>>

RequestAbort ==
    /\ abortReq' = TRUE
    /\ grace' = IF abortReq THEN grace ELSE 0
    /\ UNCHANGED <<stage, total, done, status, pauseReq>>

\* With a request in force only the event already in progress is finished.
Perform(w) ==
    /\ stage[w] = "working"
    /\ done[w] < total[w]
    /\ pauseReq \/ abortReq => grace = 0
    /\ done' = [done EXCEPT ![w] = @ + 1]
    /\ grace' = IF pauseReq \/ abortReq THEN 1 ELSE 0
    /\ UNCHANGED <<stage, total, status, pauseReq, abortReq>>

Suspend(w) ==
    /\ stage[w] = "working" /\ pauseReq
    /\ stage' = [stage EXCEPT ![w] = "paused"]
    /\ UNCHANGED <<total, done, status, pauseReq, abortReq, grace>>

\* A paused job goes on when it is resumed, or to be aborted.
Continue(w) ==
    /\ stage[w] = "paused"
    /\ ~pauseReq \/ abortReq
    /\ stage' = [stage EXCEPT ![w] = "working"]
    /\ UNCHANGED <<total, done, status, pauseReq, abortReq, grace>>

\* The last event of a plan runs to its end whatever is requested meanwhile.
End(w) ==
    /\ Executing(w)
    /\ \E s \in RunStatus :
        /\ s = "COMPLETED" => stage[w] = "working" /\ done[w] = total[w]
        /\ s = "ABORTED" => abortReq
        /\ s = "FAILED" => stage[w] = "working"
        /\ status' = [status EXCEPT ![w] = s]
    /\ stage' = [stage EXCEPT ![w] = "ended"]
    /\ UNCHANGED <<total, done, pauseReq, abortReq, grace>>

Deliver(w) ==
    /\ stage[w] = "ended"
    /\ stage' = [stage EXCEPT ![w] = "none"]
    /\ total' = [total EXCEPT ![w] = 0]
    /\ done' = [done EXCEPT ![w] = 0]
    /\ status' = [status EXCEPT ![w] = "COMPLETED"]
    /\ UNCHANGED <<pauseReq, abortReq, grace>>

Next ==
    \/ Withdraw \/ RequestPause \/ RequestResume \/ RequestAbort
    \/ \E w \in Worker : \/ Start(w) \/ Perform(w) \/ Suspend(w)
                         \/ Continue(w) \/ End(w) \/ Deliver(w)

Spec == Init /\ [][Next]_vars
=============================================================================
