-------------------------------- MODULE MCGc --------------------------------
(***************************************************************************)
(* Small instances of Gc.                                                  *)
(***************************************************************************)
EXTENDS GcInvariant, TLC

CONSTANTS
  Visitors,     \* threads that come and go, and run no transactions
  CrowdEpoch    \* all threads at once only up to this epoch

Symmetry == Permutations(Threads)

Crowd ==
  clock' > CrowdEpoch => \E t \in Threads : pc'[t] = "gone"

(* The others run transactions, and neither come nor go; their closures    *)
(* write without borrowing, since nobody waits for a Ref but for a pin.    *)
Roles ==
  \A t \in Threads :
    /\ borrowed'[t] = {}
    /\ t \in Visitors => pc'[t] # "pin"
    /\ t \notin Visitors => pc'[t] \notin {"write", "gone"} /\ ~ leaving'[t]

(* A specification under the constraint Roles.  Visitors never collect and *)
(* the others never change the list, so that Fairness asks no more of them *)
(* than this.                                                              *)
RolesSpec ==
  /\ InitWith(Visitors) /\ [][Next]_vars
  /\ \A t \in Threads : WF_vars(Continue(t))
  /\ \A t \in Visitors : SF_vars(LockMutex(t))
  /\ \A t \in Threads \ Visitors : SF_vars(Freeze(t))
=============================================================================
