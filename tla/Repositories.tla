---------------------------- MODULE Repositories ----------------------------
(***************************************************************************)
(* How the run of a Backup gets the restic repositories of its volumes, one*)
(* after the other (EnsureRepo), and its informer of all repositories      *)
(* (NewBackupper, volume_backup.go). It creates a ResticRepository and     *)
(* waits a minute until velero calls it ready; the handler of the informer *)
(* hands the answer over through an unbuffered channel kept in a map.      *)
(* Sending on a channel that has been closed, and using the map from both  *)
(* sides at once, end the process.                                         *)
(***************************************************************************)
EXTENDS Integers, Sequences, FiniteSets

CONSTANTS
  Repos,      \* repositories of the namespace
  MaxWrites   \* bound: the writes of velero

VARIABLES
  phases,     \* phases[n]: those repository n went through since the informer began
  wait,       \* wait[n]: control of EnsureRepo for n, and what it came to
  chan,       \* chan[n]: its channel
  handler,    \* handler[n]: what the handler does about n, and the phase it reports
  watch,      \* watch[n]: versions the informer has seen, and if it skipped one
  crashed     \* the process has panicked

vars == <<phases, wait, chan, handler, watch, crashed>>

-----------------------------------------------------------------------------
Decided == {"Ready", "NotReady"}
Silent == [pc |-> "idle", phase |-> ""]
Changes(n) == {i \in 2 .. Len(phases[n]) :
                 phases[n][i] # phases[n][i - 1] /\ phases[n][i] \in Decided}

(* The caches are in step when NewBackupper returns. Some repositories are *)
(* there, made by earlier Backups, and maybe not prepared yet.             *)
Init ==
  /\ phases \in [Repos -> {<<>>, <<"">>, <<"Ready">>, <<"NotReady">>}]
  /\ wait = [n \in Repos |-> [pc |-> "get", out |-> ""]]
  /\ chan = [n \in Repos |-> [open |-> FALSE, listed |-> FALSE]]
  /\ handler = [n \in Repos |-> Silent]
  /\ watch = [n \in Repos |-> [seen |-> Len(phases[n]), gap |-> FALSE]]
  /\ crashed = FALSE

-----------------------------------------------------------------------------
(* EnsureRepo. The channel is there before the repository.                 *)
MutAfter(c) == CASE c = "get" -> "create" [] c = "create" -> "register" [] OTHER -> "wait"
After(c) == CASE c = "get" -> "register" [] c = "register" -> "create" [] OTHER -> "wait"

Goto(n, c) == wait' = [wait EXCEPT ![n].pc = c]
Finish(n, out) == wait' = [wait EXCEPT ![n] = [pc |-> "forget", out |-> out]]

(* The run turns to the next repository when it has got the one before. A  *)
(* repository that exists is taken whatever its phase. Any error of Get    *)
(* counts as not found.                                                    *)
Free ==
  \A m \in Repos :
    wait[m].pc = "get" \/ (wait[m].pc = "end" /\ wait[m].out \in {"found", "Ready"})

Get(n) ==
  /\ wait[n].pc = "get" /\ Free
  /\ \/ phases[n] # <<>> /\ wait' = [wait EXCEPT ![n] = [pc |-> "end", out |-> "found"]]
     \/ Goto(n, After("get"))
  /\ UNCHANGED <<phases, chan, handler, watch, crashed>>

Register(n) ==
  /\ wait[n].pc = "register"
  /\ chan' = [chan EXCEPT ![n] = [open |-> TRUE, listed |-> TRUE]]
  /\ Goto(n, After("register"))
  /\ UNCHANGED <<phases, handler, watch, crashed>>

(* Another run may have been faster, or the call or its answer gets lost.  *)
Made(n) == phases' = [phases EXCEPT ![n] = <<"">>]

Create(n) ==
  /\ wait[n].pc = "create"
  /\ \/ phases[n] = <<>> /\ Made(n) /\ Goto(n, After("create"))
     \/ phases[n] = <<>> /\ Made(n) /\ Finish(n, "refused")
     \/ UNCHANGED phases /\ Finish(n, "refused")
  /\ UNCHANGED <<chan, handler, watch, crashed>>

Receive(n) ==
  /\ wait[n].pc = "wait" /\ handler[n].pc = "send" /\ chan[n].open
  /\ Finish(n, handler[n].phase)
  /\ handler' = [handler EXCEPT ![n] = Silent]
  /\ UNCHANGED <<phases, chan, watch, crashed>>

(* The minute is over, or the process is told to stop.                     *)
TimeOut(n) ==
  /\ wait[n].pc = "wait"
  /\ Finish(n, "late")
  /\ UNCHANGED <<phases, chan, handler, watch, crashed>>

(* On the way out the channel leaves the map, then it is closed.           *)
Forget(n) ==
  /\ wait[n].pc = "forget"
  /\ chan' = [chan EXCEPT ![n].listed = FALSE]
  /\ Goto(n, "close")
  /\ UNCHANGED <<phases, handler, watch, crashed>>

Close(n) ==
  /\ wait[n].pc = "close"
  /\ chan' = [chan EXCEPT ![n].open = FALSE]
  /\ Goto(n, "end")
  /\ UNCHANGED <<phases, handler, watch, crashed>>

-----------------------------------------------------------------------------
(* The handler of updates, one at a time, of whichever repository. An      *)
(* informer that lists again skips versions.                               *)
MutReports(old, new) == new \in Decided
Reports(old, new) == old # new /\ new \in Decided

Deliver(n) ==
  LET s == watch[n].seen IN
  /\ \A m \in Repos : handler[m].pc = "idle"
  /\ s < Len(phases[n])
  /\ \E v \in {s + 1, Len(phases[n])} :
       /\ watch' = [watch EXCEPT ![n] = [seen |-> v, gap |-> @.gap \/ v # s + 1]]
       /\ handler' = IF s > 0 /\ Reports(phases[n][s], phases[n][v])
                       THEN [handler EXCEPT ![n] = [pc |-> "lookup", phase |-> phases[n][v]]]
                       ELSE handler
  /\ UNCHANGED <<phases, wait, chan, crashed>>

LookUp(n) ==
  /\ handler[n].pc = "lookup"
  /\ handler' = [handler EXCEPT ![n] = IF chan[n].listed THEN [@ EXCEPT !.pc = "send"] ELSE Silent]
  /\ UNCHANGED <<phases, wait, chan, watch, crashed>>

(* A sender finds its channel closed, or is waiting when it is closed.     *)
Panic(n) ==
  /\ handler[n].pc = "send" /\ ~chan[n].open
  /\ crashed' = TRUE
  /\ UNCHANGED <<phases, wait, chan, handler, watch>>

(* The runtime may notice that the map is read while it is written: the    *)
(* handler looks for m, and the run enters n or takes it out.              *)
Collide(m, n) ==
  /\ handler[m].pc = "lookup" /\ wait[n].pc \in {"register", "forget"}
  /\ crashed' = TRUE
  /\ UNCHANGED <<phases, wait, chan, handler, watch>>

(* Runs of other Backups create repositories; velero prepares a repository,*)
(* and prunes it later.                                                    *)
Appear(n) ==
  /\ phases[n] = <<>> /\ Made(n)
  /\ UNCHANGED <<wait, chan, handler, watch, crashed>>

Writes == UNION {{n} \X (2 .. Len(phases[n])) : n \in Repos}

Velero(n) ==
  /\ phases[n] # <<>> /\ Cardinality(Writes) < MaxWrites
  /\ \E p \in Decided : phases' = [phases EXCEPT ![n] = Append(@, p)]
  /\ UNCHANGED <<wait, chan, handler, watch, crashed>>

Next ==
  /\ ~crashed
  /\ \E n \in Repos :
       \/ Get(n) \/ Register(n) \/ Create(n) \/ Receive(n) \/ TimeOut(n) \/ Forget(n) \/ Close(n)
       \/ Deliver(n) \/ LookUp(n) \/ Panic(n) \/ (\E m \in Repos : Collide(m, n))
       \/ Appear(n) \/ Velero(n)

Spec == Init /\ [][Next]_vars

-----------------------------------------------------------------------------
(* An answer is not missed: when the informer has seen every version of the*)
(* repository that the run waits for one by one, and velero has just       *)
(* decided, the handler is about to tell the run, however fast velero was. *)
Notified ==
  \A n \in Repos :
    wait[n].pc = "wait" /\ handler[n].pc = "idle" /\ ~watch[n].gap
      /\ watch[n].seen = Len(phases[n]) => phases[n][Len(phases[n])] \notin Decided

(* A run does not bring the process down by its own repositories alone: it *)
(* takes one whose phase changes and that is not the run's, as far as it   *)
(* knows, or that it was not told of in time, or that changes again.       *)
Own(n) ==
  wait[n].pc \notin {"get", "register", "create"} /\ wait[n].out \notin {"found", "refused"}

CrashHasCause ==
  crashed =>
    \E n \in Repos :
      /\ Changes(n) # {}
      /\ ~Own(n) \/ wait[n].out = "late" \/ Cardinality(Changes(n)) > 1
=============================================================================
