------------------------------- MODULE Syncer -------------------------------
(***************************************************************************)
(* The syncer (syncer_controller.go): it copies labelled Secrets and Config*)
(* Maps of the operator's namespace to another one, pass after pass, and   *)
(* adds the pull secrets there to its default service account. Nothing is  *)
(* ever taken away. Not registered at this commit.                         *)
(***************************************************************************)
EXTENDS Integers, FiniteSets

CONSTANTS
  Secrets,     \* names of pull secrets
  ConfigMaps,  \* names of config maps, other ones
  MaxSlips     \* bound: edits of users and calls that fail, together

VARIABLES
  source,   \* source[i]: the labelled object i
  known,    \* known[i]: what the cache has of it
  target,   \* target[i]: the object of that name in the other namespace
  shown,    \* the pull secrets there that the cache has
  account,  \* the pull secrets of the service account, if there is one
  ns,       \* the other namespace
  step,     \* control of the pass
  todo,     \* what the pass has listed and not copied yet
  slips     \* disturbances so far

vars == <<source, known, target, shown, account, ns, step, todo, slips>>

-----------------------------------------------------------------------------
Names == Secrets \cup ConfigMaps
(* pull: a secret has the type of pull secrets.                            *)
Gone == [there |-> FALSE, data |-> 0, frozen |-> FALSE, pull |-> FALSE]
Item(v, f, b) == [there |-> TRUE, data |-> v, frozen |-> f, pull |-> b]
Spend == slips < MaxSlips /\ slips' = slips + 1

Init ==
  /\ source = [i \in Names |-> Item(1, FALSE, i \in Secrets)]
  /\ known = source
  /\ target = [i \in Names |-> Gone]
  /\ shown = {}
  /\ account = [there |-> FALSE, pulls |-> {}]
  /\ ns = "active" /\ step = "idle" /\ todo = {} /\ slips = 0

-----------------------------------------------------------------------------
(* Users: they edit, freeze, remove or make again the source (a frozen, or *)
(* immutable, one has to be made again), make objects of the same name, and*)
(* delete copies.                                                          *)
EditSource(i) ==
  /\ Spend
  /\ \E x \in {Gone} \cup {Item(v, f, i \in Secrets) : v \in 1 .. 2, f \in BOOLEAN} :
       /\ source' = [source EXCEPT ![i] = x]
  /\ UNCHANGED <<known, target, shown, account, ns, step, todo>>

EditTarget(i) ==
  /\ Spend
  /\ \E x \in {Gone, Item(0, FALSE, FALSE)} :
       /\ target[i].frozen => x = Gone
       /\ target' = [target EXCEPT ![i] = x]
  /\ UNCHANGED <<source, known, shown, account, ns, step, todo>>

DeleteNamespace ==
  /\ ns = "active" /\ Spend /\ ns' = "terminating"
  /\ UNCHANGED <<source, known, target, shown, account, step, todo>>

(* Kubernetes makes the service account some time after the namespace.     *)
MakeAccount ==
  /\ ~account.there
  /\ account' = [account EXCEPT !.there = TRUE]
  /\ UNCHANGED <<source, known, target, shown, ns, step, todo, slips>>

Deliver ==
  LET now == {i \in Secrets : target[i].pull} IN
  /\ known # source \/ shown # now
  /\ known' = source /\ shown' = now
  /\ UNCHANGED <<source, target, account, ns, step, todo, slips>>

-----------------------------------------------------------------------------
(* Every pass asks for another: in ten seconds when it fails, else in      *)
(* ninety. Objects are listed from the cache, in any order.                *)
Listed(S) == {[name |-> i, item |-> known[i]] : i \in {j \in S : known[j].there}}

Start ==
  /\ step = "idle" /\ ns = "active"
  /\ step' = "secrets" /\ todo' = Listed(Secrets)
  /\ UNCHANGED <<source, known, target, shown, account, ns, slips>>

ListConfigMaps ==
  /\ step = "secrets" /\ todo = {}
  /\ step' = "config maps" /\ todo' = Listed(ConfigMaps)
  /\ UNCHANGED <<source, known, target, shown, account, ns, slips>>

(* One object: created when it cannot be found, else overwritten, whoever  *)
(* made it. The version of the copy guards the write: a conflict fails.    *)
MutCopied(x, old) == IF old.there THEN old ELSE x
Copied(x, old) == IF old.there THEN [old EXCEPT !.data = x.data] ELSE x

Refused(x, old) == old.frozen /\ old.data # x.data

Copy(t) ==
  /\ t \in todo /\ ns = "active" /\ ~Refused(t.item, target[t.name])
  /\ target' = [target EXCEPT ![t.name] = Copied(t.item, @)]
  /\ todo' = todo \ {t}
  /\ UNCHANGED <<source, known, shown, account, ns, step, slips>>

(* What is left of the list waits for the next pass.                       *)
CopyFails(t) ==
  /\ t \in todo
  /\ IF ns = "active" /\ ~Refused(t.item, target[t.name]) THEN Spend ELSE UNCHANGED slips
  /\ step' = "idle" /\ todo' = {}
  /\ UNCHANGED <<source, known, target, shown, account, ns>>

(* updateSaSecrets; a secret made in this pass may not be in the cache yet.*)
UpdateAccount ==
  /\ step = "config maps" /\ todo = {}
  /\ \/ account.there /\ account' = [account EXCEPT !.pulls = @ \cup shown] /\ UNCHANGED slips
     \/ (IF account.there THEN Spend ELSE UNCHANGED slips) /\ UNCHANGED account
  /\ step' = "idle"
  /\ UNCHANGED <<source, known, target, shown, ns, todo>>

-----------------------------------------------------------------------------
Pass ==
  \/ Start \/ ListConfigMaps \/ UpdateAccount
  \/ \E t \in todo : Copy(t) \/ CopyFails(t)

Next ==
  \/ Pass \/ MakeAccount \/ Deliver \/ DeleteNamespace
  \/ \E i \in Names : EditSource(i) \/ EditTarget(i)

Fairness == WF_vars(Pass) /\ WF_vars(MakeAccount) /\ WF_vars(Deliver)

Spec == Init /\ [][Next]_vars /\ Fairness

-----------------------------------------------------------------------------
(* When users are done, every labelled object comes to have a copy of the  *)
(* same data, and the account every pull secret among them, whatever was   *)
(* deleted or replaced meanwhile (what a user made keeps its type): unless *)
(* an object there is frozen with other data, which stops every pass.      *)
Blocked == \E i \in Names : source[i].there /\ target[i].there /\ Refused(source[i], target[i])
InStep ==
  \A i \in Names : source[i].there =>
    /\ target[i].there /\ target[i].data = source[i].data
    /\ target[i].pull => i \in account.pulls
Synced == <>[](ns = "terminating" \/ Blocked \/ InStep)
=============================================================================
