--------------------------- MODULE MCSharedFiles ---------------------------
(* What lies in files and tags that processes share and that must survive a *)
(* crash: the checkpoints and their tags, the decision memory, the released *)
(* images.  The three share nothing with each other, so a behaviour moves   *)
(* one of them, chosen at the start, and the others rest.                   *)
EXTENDS CheckpointBinding, TLC

CONSTANTS Procs, Tickers, LastDay, Window, SameLimit, CrossLimit, MaxEntries, MaxRuns,
          Publishers, Shas, Keep, MaxBuilds

VARIABLES part,
          log, tmp, day, closed, place, run, todo, updates, text, given, runs,
          rev, released, stable, cand, smoked, step, sha, listed, seen

memoryVars  == <<log, tmp, day, closed, place, run, todo, updates, text, given, runs>>
releaseVars == <<rev, released, stable, cand, smoked, step, sha, listed, seen>>
allvars     == <<vars, memoryVars, releaseVars, part>>

Memory   == INSTANCE MemoryLog WITH pc <- place
Releases == INSTANCE ImageRelease WITH Procs <- Publishers, pc <- step, tag <- released

ASSUME MemoryBounds == Memory!Bounds
ASSUME ReleaseBounds == Releases!Bounds

MCInit ==
    /\ part \in {"checkpoints", "memory", "releases"}
    /\ Init /\ (part = "checkpoints" \/ enabled = [t \in Tasks |-> TRUE])
    /\ Memory!Init
    /\ Releases!Init /\ (part = "releases" \/ released = [s \in Shas |-> None])

MCNext ==
    \/ part = "checkpoints" /\ Next /\ UNCHANGED <<memoryVars, releaseVars, part>>
    \/ part = "memory" /\ Memory!Next /\ UNCHANGED <<vars, releaseVars, part>>
    \/ part = "releases" /\ Releases!Next /\ UNCHANGED <<vars, memoryVars, part>>

MCSpec == MCInit /\ [][MCNext]_allvars

Symmetry == Permutations(Tasks) \cup Permutations(Creds)
                \cup Permutations(Publishers) \cup Permutations(Shas)

\* Every variable of the three parts has its type.
TypesOK == TypeOK /\ Memory!TypeOK /\ Releases!TypeOK

\* A run learns nothing that was not known on the day it is about (memory.py:70-107).
NoHindsight == Memory!NoHindsight

\* The memory implements DecisionLog (memory.py:30-49, 177-283).
KeepsDecisions == Memory!KeepsDecisions

\* local-stable has passed the offline test (local_image_release.py:159-228).
StableIsTested == Releases!StableIsTested

\* The tag of local-stable goes to an overtaken cleanup only (local_image_release.py:131-156).
OnlyAnOvertakenCleanup == Releases!OnlyAnOvertakenCleanup
=============================================================================
