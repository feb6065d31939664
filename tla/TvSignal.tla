------------------------------ MODULE TvSignal ------------------------------
(***************************************************************************)
(* How the clients learn whether the tuner has a signal.  libdvb calls     *)
(* CFrontEnd::dmd_fend_callback on its own thread when the status of the   *)
(* frontend changes, CTv's message thread asks for the status two seconds  *)
(* after a program was played (TV_MSG_CHECK_FE_DELAY), both write the one  *)
(* CFrontEnd::mCurSigEv and queue a copy of it, and the message thread     *)
(* handles the copies (CTv::onEvent(FEEvent)) while other threads change   *)
(* the source and mTvAction.                                               *)
(*                                                                         *)
(* TvWatch is all that this module knows of those threads; TvControl shows *)
(* that CTv keeps to it.  The analog frontend's events are only logged and *)
(* left out; vendor.tv.dtv.tsplayer.enable is set.                         *)
(***************************************************************************)
EXTENDS TvWatch, Integers, Sequences

CONSTANTS MaxChecks,  \* bound on the delayed checks under way
          MaxQueue    \* bound on the frontend events in the message queue

ASSUME SignalAssumption ==
    MaxChecks \in Nat \ {0} /\ MaxQueue \in Nat \ {0}

Threads == {"libdvb", "message"}

VARIABLES lock,    \* the demodulator: off, searching, locked or timedout
          hand,    \* what a thread is about to put into mCurSigEv, or "written"
          ev,      \* mCurSigEv.mCurSigStaus
          queue,   \* TV_MSG_FE_EVENT messages
          checks,  \* TV_MSG_CHECK_FE_DELAY messages
          report,  \* the event the message thread has decided to send
          told,    \* the last SignalInfoEvent the clients got
          crossed, \* history: libdvb reported while a check that had read an
                   \* older status was on its way, and no check since ran alone
          unasked  \* history: what is watched began with a timeshift, and the
                   \* frontend has said nothing since

signalVars == <<lock, hand, ev, queue, checks, report, told, crossed, unasked>>
allVars == <<watchVars, signalVars>>

SignalInit ==
    /\ WatchInit
    /\ lock = "off"
    /\ hand = [t \in Threads |-> "no"]
    /\ ev = "none" /\ queue = <<>>
    /\ checks = 0
    /\ report = "none" /\ told = "none"
    /\ crossed = FALSE /\ unasked = FALSE

-----------------------------------------------------------------------------
(* The threads that run CTv's operations.                                  *)

\* What an operation makes of the demodulator.  setPara leaves it alone when
\* the parameters are those it has; the scanner tunes as it likes.
Retune ==
    lock' \in IF ~tuned' /\ ~scanning' THEN {"off"}
              ELSE IF tuned /\ lock # "off" THEN {lock, "searching"}
              ELSE {"searching"}

Idle(t) == hand[t] = "no"

\* The frontend is tuned before PLAYING is up: a signal may have been found and
\* its news dropped.
Early == lock' = "locked" /\ queue = <<>> /\ report = "none" /\ \A t \in Threads : Idle(t)

\* playDtvProgramUnlocked up to PLAYING; then the check that is due in two
\* seconds.
PlayProgram ==
    /\ Play /\ (Retune \/ Early)
    /\ checks < MaxChecks
    /\ unasked' = FALSE
    /\ UNCHANGED <<hand, ev, queue, checks, report, told, crossed>>

\* Faulty variant: no check is asked for.
SendCheck_None ==
    /\ Ask
    /\ UNCHANGED signalVars

SendCheck ==
    /\ Ask
    /\ checks' = checks + 1
    /\ UNCHANGED <<lock, hand, ev, queue, report, told, crossed, unasked>>

\* playDtvTimeShiftUnlocked.
PlayShifted ==
    /\ PlayTimeShift /\ (Retune \/ Early)
    /\ unasked' = TRUE
    /\ UNCHANGED <<hand, ev, queue, checks, report, told, crossed>>

\* Any other operation.
Operate ==
    /\ Other /\ Retune
    /\ UNCHANGED <<hand, ev, queue, checks, report, told, crossed, unasked>>

-----------------------------------------------------------------------------
(* The frontend. *)

\* MaxQueue bounds the events that are queued or about to be.
Held(t) == IF Idle(t) THEN 0 ELSE 1
Room == Len(queue) + Held("libdvb") + Held("message") < MaxQueue

\* The demodulator finds or misses the signal; libdvb has its callback called.
StatusChange ==
    /\ Room /\ Idle("libdvb")
    /\ \/ lock \in {"searching", "timedout"} /\ lock' = "locked"
       \/ lock \in {"searching", "locked"} /\ lock' = "timedout"
    /\ hand' = [hand EXCEPT !["libdvb"] = lock']
    /\ crossed' = ~Idle("message") /\ unasked' = FALSE
    /\ UNCHANGED <<watchVars, ev, queue, checks, report, told>>

\* Faulty variant: only a lock is reported.
CheckStatus_LockOnly ==
    /\ checks > 0 /\ Room /\ Idle("message") /\ report = "none"
    /\ checks' = checks - 1
    /\ hand' = IF lock = "locked" THEN [hand EXCEPT !["message"] = lock] ELSE hand
    /\ crossed' = (crossed /\ ~Idle("libdvb"))
    /\ UNCHANGED <<watchVars, lock, ev, queue, report, told, unasked>>

\* TV_MSG_CHECK_FE_DELAY: checkStatusOnce reads the status.
CheckStatus ==
    /\ checks > 0 /\ Room /\ Idle("message") /\ report = "none"
    /\ checks' = checks - 1
    /\ hand' = IF lock \in {"locked", "timedout"}
               THEN [hand EXCEPT !["message"] = lock] ELSE hand
    /\ crossed' = (crossed /\ ~Idle("libdvb"))
    /\ UNCHANGED <<watchVars, lock, ev, queue, report, told, unasked>>

\* Both threads write mCurSigEv and then pass it on; nothing keeps them apart.
WriteEvent(t) ==
    /\ hand[t] \in {"locked", "timedout"}
    /\ ev' = IF hand[t] = "locked" THEN "HAS_SIG" ELSE "NO_SIG"
    /\ hand' = [hand EXCEPT ![t] = "written"]
    /\ UNCHANGED <<watchVars, lock, queue, checks, report, told, crossed, unasked>>

QueueEvent(t) ==
    /\ hand[t] = "written"
    /\ queue' = Append(queue, ev)
    /\ hand' = [hand EXCEPT ![t] = "no"]
    /\ UNCHANGED <<watchVars, lock, ev, checks, report, told, crossed, unasked>>

-----------------------------------------------------------------------------
(* The message thread. *)

\* CTv::onEvent(FEEvent) up to sendTvEvent.
HandleEvent ==
    /\ queue # <<>> /\ Idle("message") /\ report = "none"
    /\ queue' = Tail(queue)
    /\ report' = IF Head(queue) = "HAS_SIG"
                 THEN IF dtv /\ playing /\ ~scanning THEN "STABLE" ELSE "none"
                 ELSE IF ~scanning /\ ~(dtv /\ stopping) THEN "NOSIG" ELSE "none"
    /\ UNCHANGED <<watchVars, lock, hand, ev, checks, told, crossed, unasked>>

\* sendTvEvent tests SCANNING again.
SendReport ==
    /\ report # "none"
    /\ told' = IF scanning THEN told ELSE report
    /\ report' = "none"
    /\ UNCHANGED <<watchVars, lock, hand, ev, queue, checks, crossed, unasked>>

-----------------------------------------------------------------------------
SignalNext ==
    \/ PlayProgram \/ SendCheck \/ PlayShifted \/ Operate
    \/ StatusChange \/ CheckStatus
    \/ \E t \in Threads : WriteEvent(t) \/ QueueEvent(t)
    \/ HandleEvent \/ SendReport

\* The threads run, a play that raised PLAYING goes on to its check, delayed
\* messages come due; nobody has to call CTv, and the demodulator need not find
\* out about its signal.
SignalSpec ==
    /\ SignalInit /\ [][SignalNext]_allVars
    /\ WF_allVars(SendCheck) /\ WF_allVars(CheckStatus)
    /\ WF_allVars(HandleEvent) /\ WF_allVars(SendReport)
    /\ \A t \in Threads : WF_allVars(WriteEvent(t)) /\ WF_allVars(QueueEvent(t))

-----------------------------------------------------------------------------
(* Properties. *)

SignalTypeOK ==
    /\ {dtv, playing, scanning, stopping, tuned, asking, crossed, unasked} \subseteq BOOLEAN
    /\ lock \in {"off", "searching", "locked", "timedout"}
    /\ hand \in [Threads -> {"no", "locked", "timedout", "written"}]
    /\ ev \in {"none", "HAS_SIG", "NO_SIG"}
    /\ queue \in Seq({"HAS_SIG", "NO_SIG"}) /\ Len(queue) <= MaxQueue
    /\ checks \in 0..MaxChecks /\ (asking => checks < MaxChecks)
    /\ report \in {"none", "STABLE", "NOSIG"} /\ told \in {"none", "STABLE", "NOSIG"}

Watching == dtv /\ playing /\ tuned /\ ~scanning /\ ~stopping

Truth == IF lock = "locked" THEN "STABLE" ELSE "NOSIG"

Settled == lock \in {"locked", "timedout"}

\* Two losses the code has: a report of libdvb that crosses a check which read
\* the status before it, and a signal that was found or lost before a timeshift
\* began to be watched.
Sound == ~crossed /\ ~unasked

\* While DTV is watched and no event, check or report is on its way, the
\* clients know the status of the tuner: although events are dropped while
\* nobody watches, in the middle of a stop and while a scan goes on, and although
\* libdvb's thread and the check write the one mCurSigEv.
QuietTruth ==
    Watching /\ Sound /\ Settled /\ queue = <<>> /\ checks = 0 /\ ~asking
    /\ report = "none" /\ (\A t \in Threads : Idle(t))
        => told = Truth

\* Whoever keeps watching DTV on a tuner that keeps its signal is told so in
\* the end, and likewise without signal.
SignalReported ==
    \A s \in {"locked", "timedout"} :
        <>[](Watching /\ Sound /\ lock = s) =>
            <>[](told = IF s = "locked" THEN "STABLE" ELSE "NOSIG")
=============================================================================
