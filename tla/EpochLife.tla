------------------------------ MODULE EpochLife ------------------------------
(***************************************************************************)
(* What the API, the keeper and the settlement contract promise together   *)
(* about an epoch (keeper/src/run.ts, header and the comments on re-posts): *)
(* it is posted with the set of jobs it pays, may be vetoed while posted,   *)
(* is never posted again with the set that was vetoed, and no job is paid   *)
(* by two epochs.  KeeperSystem implements it.                              *)
(***************************************************************************)
CONSTANTS Epochs, Jobs

VARIABLE life

Lives == [st : {"None", "Posted", "Vetoed", "Finalized"}, jobs : SUBSET Jobs]

Init == life = [e \in Epochs |-> [st |-> "None", jobs |-> {}]]

Post(e, S) ==
  /\ \/ life[e].st = "None"
     \/ life[e].st = "Vetoed" /\ S # life[e].jobs
  /\ life' = [life EXCEPT ![e] = [st |-> "Posted", jobs |-> S]]

Veto(e) ==
  /\ life[e].st = "Posted"
  /\ life' = [life EXCEPT ![e].st = "Vetoed"]

Finalize(e) ==
  /\ life[e].st = "Posted"
  /\ \A f \in Epochs : life[f].st = "Finalized" => life[f].jobs \cap life[e].jobs = {}
  /\ life' = [life EXCEPT ![e].st = "Finalized"]

Next == \E e \in Epochs :
  \/ \E S \in SUBSET Jobs : Post(e, S)
  \/ Veto(e)
  \/ Finalize(e)

Spec == Init /\ [][Next]_life
=============================================================================
