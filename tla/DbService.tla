----------------------------- MODULE DbService -----------------------------
(***************************************************************************)
(* The reconciler of DbService objects (dbservice_controller.go), which    *)
(* reports if a database server can be reached and takes the account of the*)
(* administrator. Not registered at this commit.                           *)
(***************************************************************************)
EXTENDS Integers

CONSTANT MaxFaults   \* bound: patches that fail

VARIABLES
  status,   \* the status on the API server
  copy,     \* the status in the cache
  seen,     \* the status the pass started from
  world,    \* what there is to see of the server and its account
  due,      \* the key waits in the workqueue
  pc,       \* control of the worker
  failures  \* disturbances so far

vars == <<status, copy, seen, world, due, pc, failures>>

-----------------------------------------------------------------------------
(* "unread": the account or the port of the service cannot be read.        *)
Worlds == {"unread", "down", "denied", "up"}
Status == [network : BOOLEAN, ready : BOOLEAN]
Blank  == [network |-> FALSE, ready |-> FALSE]

(* updateDbServiceStatus.                                                  *)
MutFound(w, old) ==
  [network |-> w \in {"denied", "up"} \/ old.network, ready |-> w = "up" \/ old.ready]
Found(w, old) == [network |-> w \in {"denied", "up"}, ready |-> w = "up"]

Init ==
  /\ status = Blank /\ copy = Blank /\ seen = Blank
  /\ world = "unread" /\ due = TRUE /\ pc = "idle" /\ failures = 0

-----------------------------------------------------------------------------
WorldMoves ==
  /\ world' \in Worlds
  /\ UNCHANGED <<status, copy, seen, due, pc, failures>>

Deliver ==
  /\ copy # status
  /\ copy' = status /\ due' = TRUE
  /\ UNCHANGED <<status, seen, world, pc, failures>>

(* Passes ask for the next one, in ten or sixty seconds.                   *)
Take ==
  /\ pc = "idle" /\ due
  /\ due' = FALSE /\ seen' = copy /\ pc' = "look"
  /\ UNCHANGED <<status, copy, world, failures>>

LookFails ==
  /\ pc = "look" /\ world = "unread"
  /\ pc' = "idle" /\ due' = TRUE
  /\ UNCHANGED <<status, copy, seen, world, failures>>

(* Where the status is as the pass found it, in the cache, nothing is sent;*)
(* else what differs from that is. The world may have moved on when it is. *)
Look ==
  LET new == Found(world, seen) IN
  /\ pc = "look" /\ world # "unread"
  /\ IF new = seen THEN pc' = "idle" /\ due' = TRUE /\ UNCHANGED seen
     ELSE /\ seen' = new /\ UNCHANGED due
          /\ pc' = IF new.network = seen.network THEN "patch ready"
                   ELSE IF new.ready = seen.ready THEN "patch network" ELSE "patch both"
  /\ UNCHANGED <<status, copy, world, failures>>

Patch ==
  /\ pc \notin {"idle", "look"}
  /\ \/ /\ status' = [network |-> IF pc = "patch ready" THEN status.network ELSE seen.network,
                      ready |-> IF pc = "patch network" THEN status.ready ELSE seen.ready]
        /\ UNCHANGED failures
     \/ failures < MaxFaults /\ failures' = failures + 1 /\ UNCHANGED status
  /\ pc' = "idle" /\ due' = TRUE
  /\ UNCHANGED <<copy, seen, world>>

-----------------------------------------------------------------------------
Reconcile == Take \/ LookFails \/ Look \/ Patch

Next == Reconcile \/ WorldMoves \/ Deliver

(* Passes, and the informer, go on.                                        *)
Fairness == WF_vars(Reconcile) /\ WF_vars(Deliver)

Spec == Init /\ [][Next]_vars /\ Fairness

-----------------------------------------------------------------------------
(* The status comes to tell the truth when the server and its account stay *)
(* as they are, unless they cannot be read: though a patch holds only what *)
(* differs from a copy that may be old.                                    *)
TellsTruth ==
  \A w \in Worlds \ {"unread"} : <>[](world = w) => <>[](status = Found(w, Blank))
=============================================================================
