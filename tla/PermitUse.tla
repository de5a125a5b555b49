----------------------------- MODULE PermitUse ------------------------------
(***************************************************************************)
(* What a session (module Session) and the TURN scheduler (module          *)
(* TurnScheduler) expect of each other: the life of one turnPermit as both *)
(* sides see it.  A session asks once, gets a permit or, only when its run *)
(* is stopped, an error; it finishes a permit once; and it tells the truth *)
(* about the run: Canceled is said only when the run was stopped, and      *)
(* Other, which counts against an endpoint that is being probed, only when *)
(* it was not.                                                             *)
(*                                                                         *)
(* Either module has the other side as a free choice; that it implements   *)
(* this specification shows that the choices stay within one agreement.    *)
(***************************************************************************)
VARIABLES
    state,    \* out: no permit; asking: in Acquire; holding: has a permit
    stopped,  \* the context of the run ended while the session was not out
    told      \* the outcome given to Finish, "none" if it is forgotten

useVars == <<state, stopped, told>>

UseInit == state = "out" /\ stopped = FALSE /\ told = "none"

\* Acquire is called, by a session of a run that goes on.
Ask ==
    /\ state = "out"
    /\ state' = "asking" /\ told' = "none"
    /\ UNCHANGED stopped

\* Acquire returns a permit,
Get ==
    /\ state = "asking"
    /\ state' = "holding"
    /\ UNCHANGED <<stopped, told>>

\* or the error of the context.
Refuse ==
    /\ state = "asking" /\ stopped
    /\ state' = "out" /\ stopped' = FALSE
    /\ UNCHANGED told

\* permit.Finish(permitOutcome(ctx, outcome)).
FinishWith(o) ==
    /\ state = "holding"
    /\ o = "canceled" => stopped
    /\ o = "other" => ~stopped
    /\ state' = "out" /\ stopped' = FALSE /\ told' = o

\* The run is stopped.
StopRun ==
    /\ state # "out" /\ ~stopped
    /\ stopped' = TRUE
    /\ UNCHANGED <<state, told>>

\* The outcome is no longer of interest.
Forget ==
    /\ state = "out"
    /\ told' = "none"
    /\ UNCHANGED <<state, stopped>>

UseNext ==
    \/ Ask \/ Get \/ Refuse \/ StopRun \/ Forget
    \/ \E o \in {"success", "timeout", "canceled", "other"} : FinishWith(o)

UseSpec == UseInit /\ [][UseNext]_useVars
=============================================================================
