---------------------------- MODULE ImageRelease ----------------------------
(***************************************************************************)
(* scripts/local_image_release.py: publish builds and tests an image, tags *)
(* it with its commit, moves the tag local-stable to it and removes older  *)
(* releases; rollback moves local-stable back.  Each docker call is a step *)
(* and a process may be killed between any two.                            *)
(*                                                                         *)
(* Images are numbered in the order of their creation.  Image 0 stands for *)
(* one that the script does not manage.  Nothing keeps two commands apart: *)
(* any number of them may run at once, for the same commit or another.     *)
(***************************************************************************)
EXTENDS Naturals, FiniteSets

CONSTANTS Procs, Shas,
          Keep,        \* --keep, at least 1
          MaxBuilds,   \* bound: images built
          None

\* What the constants must satisfy.
Bounds == Keep \in Nat \ {0} /\ MaxBuilds \in Nat /\ None \notin 0 .. MaxBuilds

VARIABLES rev,       \* revision label of each image built, in order
          tag,       \* trading-agents-web:<sha>
          stable,    \* trading-agents-web:local-stable
          cand,      \* trading-agents-web:candidate-<sha>-<pid>
          smoked,    \* images that passed the smoke test
          pc, sha,   \* what each process does, and for which commit
          listed,    \* images found by cleanup, then those it will remove
          seen       \* local-stable when cleanup inspected it

vars == <<rev, tag, stable, cand, smoked, pc, sha, listed, seen>>

Ids == 0 .. MaxBuilds
Built == 1 .. Cardinality(DOMAIN rev)
Managed(i, s) == i \in Built /\ rev[i] = s     \* require_immutable

Places == {"idle", "reuse", "build", "test", "check", "tag", "promote", "list", "keep",
           "used", "remove", "back"}

TypeOK ==
    /\ \E n \in Ids : rev \in [1 .. n -> Shas]
    /\ tag \in [Shas -> Ids \cup {None}] /\ stable \in Ids \cup {None}
    /\ cand \in [Procs -> Ids \cup {None}]
    /\ smoked \subseteq Built
    /\ pc \in [Procs -> Places] /\ sha \in [Procs -> Shas \cup {None}]
    /\ listed \in [Procs -> SUBSET Built] /\ seen \in [Procs -> Built \cup {None}]

Init ==
    /\ rev = [i \in {} |-> 0]
    /\ tag \in [Shas -> {None, 0}]
    /\ Cardinality({s \in Shas : tag[s] = 0}) <= 1
    /\ stable = None /\ cand = [p \in Procs |-> None]
    /\ smoked = {}
    /\ pc = [p \in Procs |-> "idle"] /\ sha = [p \in Procs |-> None]
    /\ listed = [p \in Procs |-> {}] /\ seen = [p \in Procs |-> None]

At(p, from, to) == pc[p] = from /\ pc' = [pc EXCEPT ![p] = to]

-----------------------------------------------------------------------------
(* publish *)

(* A tag that exists is reused if it is ours; where it is not, the command   *)
(* refuses and nothing has happened.                                         *)
BeginPublish(p, s) ==
    /\ \/ At(p, "idle", "build") /\ tag[s] = None
       \/ At(p, "idle", "reuse") /\ tag[s] # None /\ Managed(tag[s], s)
    /\ sha' = [sha EXCEPT ![p] = s]
    /\ UNCHANGED <<rev, tag, stable, cand, smoked, listed, seen>>

SmokeAgain(p) ==
    /\ At(p, "reuse", "promote")
    /\ tag[sha[p]] # None
    /\ smoked' = smoked \cup {tag[sha[p]]}
    /\ UNCHANGED <<rev, tag, stable, cand, sha, listed, seen>>

(* A build that finds every layer in the cache returns an image of before.   *)
Build(p) ==
    /\ At(p, "build", "test")
    /\ \/ LET new == Cardinality(DOMAIN rev) + 1
          IN  /\ new <= MaxBuilds
              /\ rev' = [i \in 1 .. new |-> IF i = new THEN sha[p] ELSE rev[i]]
              /\ cand' = [cand EXCEPT ![p] = new]
       \/ \E i \in Built : /\ rev[i] = sha[p]
                           /\ cand' = [cand EXCEPT ![p] = i]
                           /\ UNCHANGED rev
    /\ UNCHANGED <<tag, stable, smoked, sha, listed, seen>>

Smoke_Ignored(p) ==
    /\ At(p, "test", "check")
    /\ UNCHANGED <<rev, tag, stable, cand, smoked, sha, listed, seen>>

Smoke(p) ==
    /\ At(p, "test", "check")
    /\ smoked' = smoked \cup {cand[p]}
    /\ UNCHANGED <<rev, tag, stable, cand, sha, listed, seen>>

(* Another command may have been here in the meantime.                       *)
SecondCheck(p) ==
    /\ \/ At(p, "check", "tag") /\ tag[sha[p]] = None
       \/ At(p, "check", "promote") /\ tag[sha[p]] = cand[p]
    /\ UNCHANGED <<rev, tag, stable, cand, smoked, sha, listed, seen>>

TagRelease(p) ==
    /\ At(p, "tag", "promote")
    /\ tag' = [tag EXCEPT ![sha[p]] = cand[p]]
    /\ UNCHANGED <<rev, stable, cand, smoked, sha, listed, seen>>

Promote(p) ==
    /\ At(p, "promote", "list")
    /\ tag[sha[p]] # None
    /\ stable' = tag[sha[p]]
    /\ UNCHANGED <<rev, tag, cand, smoked, sha, listed, seen>>

-----------------------------------------------------------------------------
(* cleanup *)

Releases == {tag[s] : s \in {r \in Shas : tag[r] # None /\ Managed(tag[r], r)}}

ListReleases(p) ==
    /\ At(p, "list", "keep")
    /\ listed' = [listed EXCEPT ![p] = Releases]
    /\ UNCHANGED <<rev, tag, stable, cand, smoked, sha, seen>>

Retained_Newest(found, i0) ==
    {i \in found : Cardinality({j \in found : j > i}) < Keep}

(* The stable image, filled up with the newest ones to Keep.                 *)
Retained(found, i0) ==
    LET others == found \ {i0}
    IN  {i0} \cup {i \in others : Cardinality({j \in others : j > i}) < Keep - 1}

(* The checks on local-stable, and the choice.                               *)
ChooseRetained(p) ==
    /\ At(p, "keep", "used")
    /\ stable \in listed[p]
    /\ listed' = [listed EXCEPT ![p] = @ \ Retained(@, stable)]
    /\ seen' = [seen EXCEPT ![p] = stable]
    /\ UNCHANGED <<rev, tag, stable, cand, smoked, sha>>

(* Containers, running or stopped, come and go as their owners like.         *)
ReadUsed(p, used) ==
    /\ At(p, "used", "remove")
    /\ listed' = [listed EXCEPT ![p] = @ \ used]
    /\ UNCHANGED <<rev, tag, stable, cand, smoked, sha, seen>>

(* The tag of a listed image's revision, whatever image it names by now.     *)
Remove(p, i) ==
    /\ pc[p] = "remove" /\ i \in listed[p] /\ tag[rev[i]] # None
    /\ tag' = [tag EXCEPT ![rev[i]] = None]
    /\ listed' = [listed EXCEPT ![p] = @ \ {i}]
    /\ UNCHANGED <<rev, stable, cand, smoked, pc, sha, seen>>

-----------------------------------------------------------------------------
(* rollback *)

Accepts(i, s) == i # None /\ Managed(i, s)

BeginRollback(p, s) ==
    /\ At(p, "idle", "back")
    /\ Accepts(tag[s], s)
    /\ sha' = [sha EXCEPT ![p] = s]
    /\ UNCHANGED <<rev, tag, stable, cand, smoked, listed, seen>>

Leave(p) ==
    /\ pc' = [pc EXCEPT ![p] = "idle"]
    /\ sha' = [sha EXCEPT ![p] = None] /\ cand' = [cand EXCEPT ![p] = None]
    /\ listed' = [listed EXCEPT ![p] = {}] /\ seen' = [seen EXCEPT ![p] = None]

MoveBack(p) ==
    /\ pc[p] = "back" /\ tag[sha[p]] # None
    /\ stable' = tag[sha[p]]
    /\ Leave(p)
    /\ UNCHANGED <<rev, tag, smoked>>

-----------------------------------------------------------------------------
(* The last line, a check that refuses, an error of docker (a failed smoke   *)
(* test is one) or a kill.  The candidate tag goes or stays behind, and      *)
(* nobody else reads it.                                                     *)
End(p) ==
    /\ pc[p] # "idle" /\ Leave(p)
    /\ UNCHANGED <<rev, tag, stable, smoked>>

Command(p) ==
    \/ \E s \in Shas : BeginPublish(p, s) \/ BeginRollback(p, s)
    \/ SmokeAgain(p) \/ Build(p) \/ Smoke(p)
    \/ SecondCheck(p) \/ TagRelease(p) \/ Promote(p)
    \/ ListReleases(p) \/ ChooseRetained(p)
    \/ \E used \in SUBSET Built : ReadUsed(p, used)
    \/ \E i \in Built : Remove(p, i)
    \/ MoveBack(p) \/ End(p)

Next == \E p \in Procs : Command(p)

Spec == Init /\ [][Next]_vars

-----------------------------------------------------------------------------
(* local-stable names an image that passed the offline test, whoever wrote   *)
(* the tag it was copied from, and with publishers, rollbacks, cleanups and  *)
(* kills in any order (local_image_release.py:102-119, 159-228).             *)
StableIsTested == stable # None => stable \in smoked

(* The tag that rollback needs to return to local-stable is removed by none  *)
(* but a cleanup that was overtaken: it inspected local-stable before a      *)
(* rollback or another publisher moved it (local_image_release.py:131-156).  *)
OnlyAnOvertakenCleanup ==
    [][\A p \in Procs : \A i \in Built :
        Remove(p, i) /\ stable # None /\ rev[stable] = rev[i] => seen[p] # stable]_vars
=============================================================================
