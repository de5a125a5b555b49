---------------------------- MODULE CredsService ----------------------------
(***************************************************************************)
(* What the credential cache of one VK link promises to the groups that    *)
(* use it (go_client/creds.go, getVkCredsCached and                        *)
(* InvalidateLinkCacheIfGen): credentials come in generations numbered     *)
(* 1, 2, 3, ... and a call is answered with an error or with the           *)
(* generation the cache holds when it is answered.                         *)
(***************************************************************************)
EXTENDS Naturals

CONSTANTS Callers

VARIABLES
    issued,   \* generations published so far
    current,  \* the generation in the cache, 0 when it is empty
    dead,     \* the newest generation invalidated so far
    open,     \* callers whose call has not been answered
    floor,    \* dead, as it was when the caller's last call began
    got       \* the generation the last call was answered with, 0 for an error

serviceVars == <<issued, current, dead, open, floor, got>>

ServiceInit ==
    /\ issued = 0
    /\ current = 0
    /\ dead = 0
    /\ open = {}
    /\ floor = [c \in Callers |-> 0]
    /\ got = [c \in Callers |-> 0]

Begin(c) ==
    /\ c \notin open
    /\ open' = open \cup {c}
    /\ floor' = [floor EXCEPT ![c] = dead]
    /\ got' = [got EXCEPT ![c] = 0]
    /\ UNCHANGED <<issued, current, dead>>

\* Answer a call; one that finds the cache filled begins and is answered in
\* one step.
AnswerWith(c, g) ==
    /\ g \in {0, current}
    /\ open' = open \ {c}
    /\ floor' = IF c \in open THEN floor ELSE [floor EXCEPT ![c] = dead]
    /\ got' = [got EXCEPT ![c] = g]
    /\ UNCHANGED <<issued, current, dead>>

Answer(c) == AnswerWith(c, 0) \/ AnswerWith(c, current)

PublishNext ==
    /\ issued' = issued + 1
    /\ current' = issued'
    /\ UNCHANGED <<dead, open, floor, got>>

\* A variant: the rejected credentials stay.
RejectKeepsCached ==
    /\ current # 0
    /\ dead' = current
    /\ UNCHANGED <<issued, current, open, floor, got>>

Reject ==
    /\ current # 0
    /\ dead' = current
    /\ current' = 0
    /\ UNCHANGED <<issued, open, floor, got>>

ServiceNext ==
    \/ \E c \in Callers : Begin(c) \/ Answer(c)
    \/ PublishNext
    \/ Reject

ServiceSpec == ServiceInit /\ [][ServiceNext]_serviceVars

-----------------------------------------------------------------------------
\* What the groups rely on: an answer is newer than every generation that had
\* been invalidated when the call began.
AnswersAreFresh ==
    \A c \in Callers : got[c] # 0 => got[c] > floor[c]
=============================================================================
