----------------------------- MODULE MCWaiting ------------------------------
(* The wait queue, its contract, and a pipe, whose tasks sleep as the        *)
(* contract allows.  A behaviour is one of the queue or one of the pipe,     *)
(* which its first state chooses.  The pipe has 3 cells, so that one call    *)
(* can fill it, wrap around and sleep.                                       *)
EXTENDS WaitQueue, Pipe

VARIABLE which

WaitingInit == Init /\ PipeInit /\ which \in {"queue", "pipe"}

OnQueue == which = "queue" /\ UNCHANGED <<pipevars, which>>
OnPipe == which = "pipe" /\ UNCHANGED <<vars, which>>

\* A pipe that both ends have left rests; the queue never does.
WaitingNext ==
  \/ OnQueue /\ Next
  \/ OnPipe /\ PipeNext
  \/ OnPipe /\ UNCHANGED pipevars

\* The fairness is that of WaitQueue!FairSpec, for the behaviours of the queue,
\* and of Pipe!PipeFairSpec.
WaitingSpec ==
  /\ WaitingInit
  /\ [][WaitingNext]_<<vars, pipevars, which>>
  /\ \A t \in Tasks :
       /\ WF_vars(OnQueue /\ (Test(t) \/ Take(t) \/ GiveUp(t) \/ SleepOn(t) \/ SleepAgain(t) \/ WakeNext(t)))
       /\ SF_vars(/\ OnQueue /\ (Pause \/ \E u \in Tasks : SleepOn(u) \/ SleepAgain(u) \/ Preempt(u))
                  /\ current' = t)
  /\ \A t \in Users : SF_pipevars(PipeStep(t))
-----------------------------------------------------------------------------
Contract == INSTANCE WaitSpec WITH waiting <- {t \in Tasks : pc[t] # "user"}

\* sleep_on() and wake_up(), with the loops around them, are a fair-to-somebody
\* way of waiting: the waiting tasks are those inside the system call.
ImplementsWaitSpec == Contract!Spec
=============================================================================
