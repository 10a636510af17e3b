------------------------------ MODULE Startup ------------------------------
(***************************************************************************)
(* What an operator process does before it serves (cmd/main.go, crd.go):   *)
(* it installs or upgrades its CRDs, makes the default storage location,   *)
(* labels the restic repositories, and only then starts its controllers.   *)
(* Several processes may do so at once. Whatever goes wrong ends the       *)
(* process, and its pod starts it again.                                   *)
(***************************************************************************)
EXTENDS Integers

CONSTANTS
  Processes,
  NumCrds,     \* the CRDs, in the order of their manifests
  NumRepos,    \* restic repositories
  MaxFaults    \* bound: failed calls, kills and writes of others together

VARIABLES
  server,   \* server[k]: the k-th object a start looks at
  keys,     \* the pods are given both keys of the object store
  proc,     \* proc[p]: the place of process p in its start, and what it read
  faults    \* disturbances so far

vars == <<server, keys, proc, faults>>

-----------------------------------------------------------------------------
(* The objects in the order in which a start comes to them. They are right *)
(* when the spec of a CRD is the shipped one, the location has the keys of *)
(* the pods, a repository its labels. A CRD that has just been created     *)
(* misses the mark that makes Helm keep it.                                *)
Bsl     == NumCrds + 1
Repos   == Bsl + 1 .. Bsl + NumRepos
Objects == 1 .. Bsl + NumRepos
IsCrd(k) == k <= NumCrds

Absent  == [rev |-> 0, right |-> FALSE, kept |-> FALSE]
Created(k) == [rev |-> 1, right |-> k # Bsl \/ keys, kept |-> FALSE]
Better(x) == [rev |-> x.rev + 1, right |-> TRUE, kept |-> TRUE]

Down == [pc |-> "down", at |-> 1, read |-> [k \in Objects |-> Absent]]
Spend == faults < MaxFaults /\ faults' = faults + 1

(* The first CRD is that of an earlier release, as are the repositories and*)
(* maybe the location; the others are missing.                             *)
Init ==
  /\ keys \in BOOLEAN
  /\ \E here \in {{1}, {1, Bsl}} :
       server = [k \in Objects |-> IF k \in here \cup Repos
                  THEN [rev |-> 1, right |-> FALSE, kept |-> IsCrd(k)] ELSE Absent]
  /\ proc = [p \in Processes |-> Down]
  /\ faults = 0

-----------------------------------------------------------------------------
Goto(p, c) == proc' = [proc EXCEPT ![p].pc = c]
Exit(p) == proc' = [proc EXCEPT ![p] = Down]
Pass(p) ==
  proc' = [proc EXCEPT ![p] = [@ EXCEPT !.at = proc[p].at + 1,
             !.pc = IF proc[p].at = Bsl + NumRepos THEN "serving"
                    ELSE IF proc[p].at \in Repos THEN "write" ELSE "read"]]

(* newServer; whatever fails there ends the process, by exit or by panic.  *)
Boot(p) ==
  /\ proc[p].pc = "down"
  /\ Goto(p, "read")
  /\ UNCHANGED <<server, keys, faults>>

(* CRDs and the location are read one by one, repositories in a list. A Get*)
(* that fails counts as not found; a list that fails ends the process.     *)
Read(p) ==
  LET k == proc[p].at
      got == IF k \in Repos THEN Repos ELSE {k} IN
  /\ proc[p].pc = "read"
  /\ proc' = [proc EXCEPT ![p] = [@ EXCEPT !.pc = "write",
                !.read = [i \in Objects |-> IF i \in got THEN server[i] ELSE proc[p].read[i]]]]
  /\ UNCHANGED <<server, keys, faults>>

ReadFails(p) ==
  LET k == proc[p].at IN
  /\ proc[p].pc = "read" /\ Spend
  /\ IF k \in Repos THEN Exit(p)
     ELSE proc' = [proc EXCEPT ![p] = [@ EXCEPT !.pc = "write", !.read[k] = Absent]]
  /\ UNCHANGED <<server, keys>>

(* installCrd leaves a CRD alone that is right and marked, and without both*)
(* keys (the shipped manifests set neither) a location that is there stays *)
(* as it is. Repositories are written at every start.                      *)
MutInPlace(k, x) ==
  \/ IsCrd(k) /\ (x.right \/ x.kept)
  \/ k = Bsl /\ ~keys /\ x # Absent
InPlace(k, x) ==
  \/ IsCrd(k) /\ x.right /\ x.kept
  \/ k = Bsl /\ ~keys /\ x # Absent

MutCreates(x) == TRUE
Creates(x) == x = Absent

Write(p) ==
  LET k == proc[p].at  x == proc[p].read[k] IN
  /\ proc[p].pc = "write" /\ ~InPlace(k, x)
  /\ IF Creates(x)
       THEN IF server[k] = Absent
              THEN server' = [server EXCEPT ![k] = Created(k)] /\ Pass(p)
              ELSE UNCHANGED server /\ Exit(p)
       ELSE IF server[k].rev = x.rev
              THEN server' = [server EXCEPT ![k] = Better(@)] /\ Pass(p)
              ELSE UNCHANGED server /\ Exit(p)
  /\ UNCHANGED <<keys, faults>>

LeaveAlone(p) ==
  /\ proc[p].pc = "write" /\ InPlace(proc[p].at, proc[p].read[proc[p].at])
  /\ Pass(p)
  /\ UNCHANGED <<server, keys, faults>>

(* A call that fails, a lost lease, a kill.                                *)
Die(p) ==
  /\ proc[p].pc # "down" /\ Spend
  /\ Exit(p)
  /\ UNCHANGED <<server, keys>>

(* velero writes repositories and the location, users edit CRDs.           *)
Touch(k) ==
  /\ server[k] # Absent /\ Spend
  /\ server' = [server EXCEPT ![k].rev = @ + 1]
  /\ UNCHANGED <<keys, proc>>

-----------------------------------------------------------------------------
Start(p) == Boot(p) \/ Read(p) \/ Write(p) \/ LeaveAlone(p)

Next ==
  \/ \E p \in Processes : Start(p) \/ ReadFails(p) \/ Die(p)
  \/ \E k \in Objects : Touch(k)

(* A pod whose process ended starts it again, and a start goes on.         *)
Fairness == \A p \in Processes : WF_vars(Start(p))

Spec == Init /\ [][Next]_vars /\ Fairness

-----------------------------------------------------------------------------
(* A process serves only when all it needs is in place and of its release, *)
(* whatever other starts did in between, though reads are not checked. Of a*)
(* location this can be said if the pods have the keys.                    *)
ServingIsReady ==
  \A p \in Processes : proc[p].pc = "serving" =>
    \A k \in Objects : server[k] # Absent /\ (server[k].right \/ (k = Bsl /\ ~keys))

(* Starts that race for the same objects get in each other's way only so   *)
(* long: every process comes to serve, again after every disturbance.      *)
Serves == \A p \in Processes : []<>(proc[p].pc = "serving")
=============================================================================
