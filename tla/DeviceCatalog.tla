---------------------------- MODULE DeviceCatalog ----------------------------
(***************************************************************************)
(* What the adapter promises its OPC UA clients, without walks, browses or *)
(* a callback repository.  A registration decides on each element of its   *)
(* device once: it is shown, below a parent the same registration shows,   *)
(* or it is left out, and with a group everything below it.  A shown leaf  *)
(* can only fail, for good.  A device is withdrawn as a whole.             *)
(***************************************************************************)
EXTENDS InformationModel

VARIABLES
  shown,    \* the registration a node is shown by, or Absent
  newest,   \* the number of the newest registration
  open      \* elements the newest registration has not decided on

catalogVars == <<shown, newest, open>>

Below(o) == {e \in Elements : o \in Ancestors[e]}

Init ==
  /\ shown = [n \in NodeIds |-> Absent]
  /\ newest = 0
  /\ open = {}

Register(d) ==
  /\ newest < MaxRegistrations
  /\ open = {} /\ shown[d] = Absent
  /\ newest' = newest + 1
  /\ shown' = [shown EXCEPT ![d] = newest + 1]
  /\ open' = Below(d)

Show(e) ==
  /\ e \in open
  /\ shown[e] = Absent /\ shown[Parent[e]] = newest
  /\ shown' = [shown EXCEPT ![e] = newest]
  /\ open' = open \ {e}
  /\ UNCHANGED newest

LeaveOut(e) ==
  /\ e \in open
  /\ open' = open \ ({e} \cup Below(e))
  /\ UNCHANGED <<shown, newest>>

\* The device failed while it was registered.
GiveUp ==
  /\ open' = {}
  /\ UNCHANGED <<shown, newest>>

Fail(l) ==
  /\ shown[l] # Absent
  /\ shown' = [shown EXCEPT ![l] = Absent]
  /\ UNCHANGED <<newest, open>>

Withdraw(d) ==
  /\ open = {}
  /\ shown' = [n \in NodeIds |-> IF n = d \/ n \in Below(d) THEN Absent ELSE shown[n]]
  /\ UNCHANGED <<newest, open>>

Next ==
  \/ \E d \in Devices : Register(d) \/ Withdraw(d)
  \/ \E e \in Elements : Show(e) \/ LeaveOut(e)
  \/ \E l \in Leaves : Fail(l)
  \/ GiveUp

Spec == Init /\ [][Next]_catalogVars
=============================================================================
