---------------------------- MODULE WorkerThread ----------------------------
(***************************************************************************)
(* What afThread promises to the classes that own one (SuperMediaPlayer,   *)
(* ActiveDecoder, filterAudioRender, AsyncJob, ...): a function is called  *)
(* again and again while the worker is running; it is parked or stopped    *)
(* only between two calls; and once parked it is not called until start(). *)
(***************************************************************************)
VARIABLES
    mode,   \* "off", "running", "parked" or "stopping"
    busy    \* a call of the function is in progress

workerVars == <<mode, busy>>

Init ==
    /\ mode = "off"
    /\ busy = FALSE

Start ==
    /\ mode \in {"off", "running", "parked"}
    /\ mode' = "running"
    /\ UNCHANGED busy

Begin ==
    /\ mode = "running"
    /\ ~ busy
    /\ busy' = TRUE
    /\ UNCHANGED mode

End ==
    /\ busy
    /\ busy' = FALSE
    /\ UNCHANGED mode

Park ==
    /\ mode = "running"
    /\ ~ busy
    /\ mode' = "parked"
    /\ UNCHANGED busy

Stop ==
    /\ mode # "off"
    /\ mode' = "stopping"
    /\ UNCHANGED busy

Join ==
    /\ mode = "stopping"
    /\ ~ busy
    /\ mode' = "off"
    /\ UNCHANGED busy

Next == Start \/ Begin \/ End \/ Park \/ Stop \/ Join

Spec == Init /\ [][Next]_workerVars
=============================================================================
