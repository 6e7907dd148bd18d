---------------------------- MODULE PassContract ----------------------------
(***************************************************************************)
(* What a Pass promises its caller: a pass object goes NotRun -> Running  *)
(* -> Ran once; Running ends with one of the three statuses; every later  *)
(* Run of the same object returns Failure and does nothing.  One pass at *)
(* a time holds the module (the engine is single-threaded).               *)
(***************************************************************************)
CONSTANT Passes

VARIABLES
  passState,   \* [Passes -> {"NotRun", "Running", "Ran"}]
  returned     \* [Passes -> the status the latest Run returned, or "none"]

Statuses == {"Failure", "SuccessWithChange", "SuccessWithoutChange"}

ContractInit ==
  /\ passState = [p \in Passes |-> "NotRun"]
  /\ returned = [p \in Passes |-> "none"]

Start(p) ==
  /\ passState[p] = "NotRun"
  /\ \A q \in Passes : passState[q] # "Running"
  /\ passState' = [passState EXCEPT ![p] = "Running"]
  /\ UNCHANGED returned

Finish(p) ==
  /\ passState[p] = "Running"
  /\ passState' = [passState EXCEPT ![p] = "Ran"]
  /\ returned' \in {[returned EXCEPT ![p] = s] : s \in Statuses}

RejectRerun(p) ==
  /\ passState[p] = "Ran"
  /\ \A q \in Passes : passState[q] # "Running"
  /\ returned' = [returned EXCEPT ![p] = "Failure"]
  /\ UNCHANGED passState

ContractNext == \E p \in Passes : Start(p) \/ Finish(p) \/ RejectRerun(p)

ContractSpec == ContractInit /\ [][ContractNext]_<<passState, returned>>
=============================================================================
