---------------------------- MODULE MCGroupCreds ----------------------------
(* A small instance of GroupCreds: two workers share the first group of a   *)
(* run; the other groups take part in the cascade only.                     *)
EXTENDS GroupCreds

MCGroupOf == [w \in Callers |-> 1]
=============================================================================
