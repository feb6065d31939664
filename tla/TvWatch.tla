------------------------------ MODULE TvWatch ------------------------------
(***************************************************************************)
(* What CTv's control plane promises to the thread that handles frontend   *)
(* events.  That thread reads mTvAction and m_source_input without mLock,  *)
(* at any point of any operation; what it can rely on is the order in      *)
(* which the operations change them.                                       *)
(***************************************************************************)
VARIABLES dtv,       \* m_source_input is SOURCE_DTV
          playing,   \* TV_ACTION_PLAYING
          scanning,  \* TV_ACTION_SCANNING
          stopping,  \* TV_ACTION_STOPING
          tuned,     \* the frontend is programmed to a set of parameters
          asking     \* a play has yet to send TV_MSG_CHECK_FE_DELAY

watchVars == <<dtv, playing, scanning, stopping, tuned, asking>>

WatchInit ==
    /\ dtv = FALSE /\ playing = FALSE /\ scanning = FALSE
    /\ stopping = FALSE /\ tuned = FALSE /\ asking = FALSE

Change ==
    /\ dtv' \in BOOLEAN /\ playing' \in BOOLEAN /\ scanning' \in BOOLEAN
    /\ stopping' \in BOOLEAN /\ tuned' \in BOOLEAN

\* DTV is watched: from a tuned frontend, without a scan, outside a stop.
Begin ==
    /\ ~stopping /\ ~asking
    /\ Change
    /\ dtv' /\ playing' /\ ~scanning' /\ ~stopping' /\ tuned'

\* A DTV program is played, and PLAYING is up before the check is asked for.
Play == Begin /\ asking' = TRUE

\* A timeshift is played: for this no check is asked.
PlayTimeShift == Begin /\ asking' = FALSE

Ask == asking /\ asking' = FALSE /\ UNCHANGED <<dtv, playing, scanning, stopping, tuned>>

\* Anything else keeps four promises: nobody begins to watch, a stop does not
\* end while somebody plays, a scan on DTV ends with the frontend closed, and
\* a play keeps the others off mLock until it has asked for its check.
Other ==
    /\ Change /\ asking' = asking
    /\ asking => UNCHANGED <<dtv, playing, scanning, stopping>>
    /\ dtv' /\ playing' => dtv /\ playing
    /\ stopping /\ ~stopping' => ~playing'
    /\ scanning /\ ~scanning' /\ dtv' => ~tuned'

WatchNext == Play \/ PlayTimeShift \/ Ask \/ Other

WatchSpec == WatchInit /\ [][WatchNext]_watchVars
=============================================================================
