------------------------ MODULE CatalogRefreshProofs -----------------------
(* Proofs about CatalogRefresh, for any exchanges, threads, requests, ages   *)
(* and numbers of versions: a stop leaves no child process, a list is never  *)
(* replaced by older data, and a list that is missing is missed for a reason  *)
(* that requests are told.                                                   *)
EXTENDS CatalogRefresh, TLAPS

-----------------------------------------------------------------------------
(* Children and stop(). *)

ChildrenInv ==
    /\ alive \subseteq children
    /\ closed <=> stop \in {"reap", "done"}
    /\ stop = "reap" => alive \subseteq reap
    /\ NoChildOutlivesStop

LEMMA ChildrenInit == Init => ChildrenInv
  BY DEF Init, Volatile, ChildrenInv, NoChildOutlivesStop

LEMMA ChildrenNext == ChildrenInv /\ [Next]_vars => ChildrenInv'
<1> SUFFICES ASSUME ChildrenInv, [Next]_vars PROVE ChildrenInv'
  OBVIOUS
<1> USE DEF ChildrenInv, NoChildOutlivesStop
<1>1. CASE UNCHANGED <<procs, stop, closed, reap>>
  BY <1>1 DEF procs
<1>2. ASSUME NEW t \in Threads, Refresh(t) PROVE ChildrenInv'
  <2>1. CASE Call(t)
    BY <2>1 DEF Call, Spawn, life
  <2>2. CASE Answered(t) \/ NoAnswer(t)
    BY <2>2 DEF Answered, NoAnswer, Ended, life
  <2>3. CASE UNCHANGED <<procs, life>>
    BY <1>1, <2>3 DEF life
  <2>4. QED
    BY <1>2, <2>1, <2>2, <2>3 DEF Refresh, Enter, NothingToDo, Attempt, Refused, Validate,
       PublishStep, Finish, Again
<1>3. CASE StopMarket
  BY <1>3 DEF StopMarket, procs
<1>4. CASE CloseFetches
  BY <1>4 DEF CloseFetches, procs
<1>5. CASE ReapChildren
  BY <1>5 DEF ReapChildren
<1>6. CASE Restart
  BY <1>6 DEF Restart
<1>7. CASE Tick \/ Publication \/ Start \/ (\E r \in Readers : Request(r)) \/ UNCHANGED vars
  BY <1>1, <1>7 DEF Tick, Publication, Start, Request, Ask, ReadStatus, Answer, procs, life, vars
<1>8. QED
  BY <1>2, <1>3, <1>4, <1>5, <1>6, <1>7 DEF Next

\* Whichever threads were starting or waiting for a child when stop() began,
\* none of the children runs when it has ended (market.py:32-44, 85-90).
THEOREM StopEndsChildren == Spec => []NoChildOutlivesStop
<1>1. ChildrenInv => NoChildOutlivesStop
  BY DEF ChildrenInv
<1>2. QED
  BY <1>1, ChildrenInit, ChildrenNext, PTL DEF Spec

-----------------------------------------------------------------------------
(* Types. *)

LEMMA OfType == ASSUME NEW t \in Threads PROVE Of(t) \in Exchanges
  BY ThreadsAssumption DEF Of

LEMMA OlderType ==
  ASSUME NEW limit \in Nat, NEW n \in 0 .. limit
  PROVE  Older(n, limit) \in 0 .. limit /\ Older(n, limit) >= n
  BY DEF Older

\* A list that grows older keeps its version.
LEMMA AgedFile ==
  ASSUME NEW f \in Files, f # None
  PROVE  LET g == [f EXCEPT !.age = Older(@, Usable)]
         IN  /\ g \in Files /\ g # None
             /\ g.version = f.version
             /\ f.age < Usable => g.age = f.age + 1
             /\ f.age = Usable => g.age = Usable
<1> DEFINE g == [f EXCEPT !.age = Older(@, Usable)]
<1>1. f \in [version : Versions, age : 0 .. Usable]
  BY DEF Files
<1>2. f.age \in 0 .. Usable /\ f.version \in Versions
  BY <1>1
<1>3. Older(f.age, Usable) \in 0 .. Usable
  BY <1>2, OlderType, AgesAssumption
<1>4. g = [version |-> f.version, age |-> Older(f.age, Usable)]
  BY <1>1
<1>5. g \in [version : Versions, age : 0 .. Usable]
  BY <1>2, <1>3, <1>4
<1>6. g # None
  BY <1>5, NoneAssumption DEF Versions
<1>7. /\ f.age < Usable => Older(f.age, Usable) = f.age + 1
      /\ f.age = Usable => Older(f.age, Usable) = Usable
  BY <1>2, AgesAssumption DEF Older
<1>8. QED
  BY <1>4, <1>5, <1>6, <1>7 DEF Files

LEMMA NewFile ==
  ASSUME NEW v \in Versions
  PROVE  [version |-> v, age |-> 0] \in Files /\ [version |-> v, age |-> 0] # None
  BY AgesAssumption, NoneAssumption DEF Files, Versions

Places == {"off", "loop", "look", "call", "talk", "validate", "publish", "done", "failed", "wait"}

(* The part of TypeOK that the properties need. *)
Typed ==
    /\ upstream \in Versions
    /\ file \in [Exchanges -> Files]
    /\ lock \in [Exchanges -> Threads \cup {None}]
    /\ pc \in [Threads -> Places]
    /\ answer \in [Threads -> Versions \cup {None}]
    /\ \A t \in Threads : pc[t] \in {"validate", "publish"} => answer[t] \in Versions

LEMMA FirstFiles ==
  ASSUME Init
  PROVE  /\ file \in [Exchanges -> Files]
         /\ \A e \in Exchanges : file[e] # None => file[e].version = 1
<1>1. PICK own \in [Exchanges -> {None, [version |-> 1, age |-> Fresh]}],
           legacy \in {None, [version |-> 1, age |-> 0], [version |-> 1, age |-> Usable]} :
             file = [e \in Exchanges |-> Migrated(own[e], legacy)]
  BY DEF Init
<1> DEFINE First == {None, [version |-> 1, age |-> Fresh], [version |-> 1, age |-> 0],
                     [version |-> 1, age |-> Usable]}
<1>2. \A e \in Exchanges : Migrated(own[e], legacy) \in First
  BY <1>1 DEF Migrated
<1>3. 1 \in Versions /\ Fresh \in 0 .. Usable /\ 0 \in 0 .. Usable /\ Usable \in 0 .. Usable
  BY VersionsAssumption, AgesAssumption DEF Versions
<1>4. First \subseteq Files /\ \A f \in First : f # None => f.version = 1
  BY <1>3 DEF Files
<1> HIDE DEF First
<1>5. QED
  BY <1>1, <1>2, <1>4

LEMMA TypedInit == Init => Typed
<1> SUFFICES ASSUME Init PROVE Typed
  OBVIOUS
<1>1. 1 \in Versions
  BY VersionsAssumption DEF Versions
<1>2. /\ upstream = 1 /\ lock = [e \in Exchanges |-> None]
      /\ pc = [t \in Threads |-> "off"] /\ answer = [t \in Threads |-> None]
  BY DEF Init, Volatile
<1>3. QED
  BY <1>1, <1>2, FirstFiles DEF Typed, Places

LEMMA AgedFiles ==
  ASSUME Typed, Tick
  PROVE  /\ file' \in [Exchanges -> Files]
         /\ \A e \in Exchanges :
               /\ file[e] = None => file'[e] = None
               /\ file[e] # None => /\ file'[e] # None /\ file'[e].version = file[e].version
                                    /\ file[e].age < Usable => file'[e].age = file[e].age + 1
                                    /\ file[e].age = Usable => file'[e].age = Usable
<1>1. file' = [e \in Exchanges |-> IF file[e] = None THEN None
                                   ELSE [file[e] EXCEPT !.age = Older(@, Usable)]]
  BY DEF Tick
<1>2. ASSUME NEW e \in Exchanges, file[e] # None
      PROVE  /\ file'[e] \in Files /\ file'[e] # None /\ file'[e].version = file[e].version
             /\ file[e].age < Usable => file'[e].age = file[e].age + 1
             /\ file[e].age = Usable => file'[e].age = Usable
  <2>1. file[e] \in Files
    BY DEF Typed
  <2>2. file'[e] = [file[e] EXCEPT !.age = Older(@, Usable)]
    BY <1>1, <1>2
  <2>3. QED
    BY <1>2, <2>1, <2>2, AgedFile
<1>3. \A e \in Exchanges : file[e] = None => file'[e] = None
  BY <1>1
<1>4. None \in Files
  BY DEF Files
<1>5. \A e \in Exchanges : file'[e] \in Files
  BY <1>2, <1>3, <1>4
<1>6. file' \in [Exchanges -> Files]
  BY <1>1, <1>5
<1>7. QED
  BY <1>2, <1>3, <1>6

LEMMA TypedRefresh ==
  ASSUME Typed, NEW t \in Threads, Refresh(t)
  PROVE  Typed'
<1> USE OfType DEF Typed, Places, Step
<1>1. CASE Enter(t)
  BY <1>1 DEF Enter, Take, data
<1>2. CASE NothingToDo(t)
  BY <1>2 DEF NothingToDo, Release, data
<1>3. CASE Attempt(t)
  BY <1>3 DEF Attempt
<1>4. CASE Call(t) \/ Refused(t) \/ NoAnswer(t) \/ Again(t)
  BY <1>4 DEF Call, Refused, NoAnswer, Again, data
<1>5. CASE Answered(t)
  BY <1>5 DEF Answered, data
<1>6. ASSUME NEW ok \in BOOLEAN, Validate(t, ok) PROVE Typed'
  BY <1>6 DEF Validate, data
<1>7. ASSUME NEW ok \in BOOLEAN, PublishStep(t, ok) PROVE Typed'
  <2>1. /\ answer[t] \in Versions
        /\ pc' = [pc EXCEPT ![t] = IF ok THEN "done" ELSE "failed"]
        /\ UNCHANGED <<upstream, lock, answer>>
    BY <1>7 DEF PublishStep, Publish
  <2>2. [version |-> answer[t], age |-> 0] \in Files
    BY <2>1, NewFile
  <2>3. file' \in [Exchanges -> Files]
    BY <1>7, <2>2 DEF PublishStep, Publish
  <2>4. QED
    BY <2>1, <2>3
<1>8. CASE Finish(t)
  BY <1>8 DEF Finish, Release, data
<1>9. QED
  BY <1>1, <1>2, <1>3, <1>4, <1>5, <1>6, <1>7, <1>8 DEF Refresh

LEMMA TypedNext == Typed /\ [Next]_vars => Typed'
<1> SUFFICES ASSUME Typed, [Next]_vars PROVE Typed'
  OBVIOUS
<1>1. CASE Tick
  <2>1. UNCHANGED <<upstream, threads>>
    BY <1>1 DEF Tick
  <2>2. QED
    BY <1>1, <2>1, AgedFiles DEF Typed, threads
<1>2. CASE Publication
  BY <1>2, VersionsAssumption DEF Publication, threads, Versions, Typed
<1>3. CASE Start
  BY <1>3 DEF Start, data, Typed, Places
<1>4. ASSUME NEW t \in Threads, Refresh(t) PROVE Typed'
  BY <1>4, TypedRefresh
<1>5. CASE Restart
  BY <1>5 DEF Restart, Typed, Places
<1>6. CASE StopMarket \/ CloseFetches \/ ReapChildren \/ (\E r \in Readers : Request(r)) \/ UNCHANGED vars
  <2>1. UNCHANGED <<data, threads>>
    BY <1>6 DEF StopMarket, CloseFetches, ReapChildren, Request, Ask, ReadStatus, Answer, vars
  <2>2. QED
    BY <2>1 DEF data, threads, Typed
<1>7. QED
  BY <1>1, <1>2, <1>3, <1>4, <1>5, <1>6 DEF Next

-----------------------------------------------------------------------------
(* Versions. *)

Working == {"look", "call", "talk", "validate", "publish", "done", "failed"}

(* Who works on a list holds its lock, and what it was answered is not newer *)
(* than what is known upstream nor older than the list it will replace.      *)
NewsInv ==
    /\ Typed
    /\ \A t \in Threads : pc[t] \in Working => lock[Of(t)] = t
    /\ \A e \in Exchanges : file[e] # None => file[e].version <= upstream
    /\ \A t \in Threads : pc[t] \in {"validate", "publish"} =>
          /\ answer[t] <= upstream
          /\ file[Of(t)] # None => file[Of(t)].version <= answer[t]

NoneOlder == \A e \in Exchanges : file[e] # None =>
                 file'[e] # None /\ file'[e].version >= file[e].version

LEMMA FileVersion ==
  ASSUME Typed, NEW e \in Exchanges, file[e] # None
  PROVE  file[e].version \in Nat
  BY DEF Typed, Files, Versions

LEMMA NewsInit == Init => NewsInv
<1> SUFFICES ASSUME Init PROVE NewsInv
  OBVIOUS
<1>1. Typed
  BY TypedInit
<1>2. upstream = 1 /\ pc = [t \in Threads |-> "off"]
  BY DEF Init, Volatile
<1>3. QED
  BY <1>1, <1>2, FirstFiles DEF NewsInv, Working

(* Steps that change neither lists nor what is upstream. *)
LEMMA NewsKept ==
  ASSUME NewsInv, Typed', UNCHANGED <<file, upstream>>,
         \A t \in Threads : pc'[t] \in Working => lock'[Of(t)] = t,
         \A t \in Threads : pc'[t] \in {"validate", "publish"} =>
            \/ pc[t] \in {"validate", "publish"} /\ answer'[t] = answer[t]
            \/ answer'[t] = upstream
  PROVE  NewsInv' /\ NoneOlder
<1>1. \A e \in Exchanges : file'[e] # None => file'[e].version <= upstream'
  BY DEF NewsInv
<1>2. ASSUME NEW t \in Threads, pc'[t] \in {"validate", "publish"}
      PROVE  answer'[t] <= upstream' /\ (file'[Of(t)] # None => file'[Of(t)].version <= answer'[t])
  <2>1. Of(t) \in Exchanges /\ upstream \in Nat
    BY OfType DEF NewsInv, Typed, Versions
  <2>2. CASE pc[t] \in {"validate", "publish"} /\ answer'[t] = answer[t]
    BY <2>2 DEF NewsInv
  <2>3. CASE answer'[t] = upstream
    BY <2>1, <2>3 DEF NewsInv
  <2>4. QED
    BY <1>2, <2>2, <2>3
<1>3. NoneOlder
  <2>1. \A e \in Exchanges : file[e] # None => file[e].version \in Nat
    BY FileVersion DEF NewsInv
  <2>2. QED
    BY <2>1 DEF NoneOlder
<1>4. QED
  BY <1>1, <1>2, <1>3 DEF NewsInv

(* What one step of a thread means for the others of its list. *)
LEMMA NewsRefresh ==
  ASSUME NewsInv, Typed', NEW t \in Threads, Refresh(t)
  PROVE  NewsInv' /\ NoneOlder
<1>1. /\ pc \in [Threads -> Places] /\ lock \in [Exchanges -> Threads \cup {None}]
      /\ answer \in [Threads -> Versions \cup {None}] /\ None \notin Threads
      /\ \A u \in Threads : Of(u) \in Exchanges
      /\ \A u \in Threads : pc[u] \in Working => lock[Of(u)] = u
  BY OfType, NoneAssumption DEF NewsInv, Typed
<1> DEFINE Kept ==
       /\ UNCHANGED <<file, upstream>>
       /\ \A u \in Threads : pc'[u] \in Working => lock'[Of(u)] = u
       /\ \A u \in Threads : pc'[u] \in {"validate", "publish"} =>
            \/ pc[u] \in {"validate", "publish"} /\ answer'[u] = answer[u]
            \/ answer'[u] = upstream
<1>2. Kept => NewsInv' /\ NoneOlder
  BY NewsKept
<1>3. CASE Enter(t)
  <2>1. Kept
    BY <1>1, <1>3 DEF Enter, Take, Step, data, Working
  <2>2. QED
    BY <1>2, <2>1
<1>4. CASE NothingToDo(t) \/ Finish(t)
  <2>1. pc[t] \in Working /\ pc' = [pc EXCEPT ![t] = "wait"] /\ lock' = [lock EXCEPT ![Of(t)] = None]
    BY <1>4 DEF NothingToDo, Finish, Release, Step, Working
  <2>2. UNCHANGED <<file, upstream>> /\ \A u \in Threads : u # t => answer'[u] = answer[u]
    BY <1>1, <1>4 DEF NothingToDo, Finish, data
  <2>3. \A u \in Threads : u # t /\ pc[u] \in Working => Of(u) # Of(t)
    BY <1>1, <2>1
  <2>4. Kept
    BY <1>1, <2>1, <2>2, <2>3 DEF Working
  <2>5. QED
    BY <1>2, <2>4
<1>5. CASE Attempt(t) \/ Call(t) \/ Refused(t) \/ NoAnswer(t) \/ Again(t)
  <2>1. Kept
    BY <1>1, <1>5 DEF Attempt, Begin, Call, Refused, NoAnswer, Again, Step, data, Working
  <2>2. QED
    BY <1>2, <2>1
<1>6. CASE Answered(t)
  <2>1. Kept
    BY <1>1, <1>6 DEF Answered, Step, data, Working
  <2>2. QED
    BY <1>2, <2>1
<1>7. ASSUME NEW ok \in BOOLEAN, Validate(t, ok) PROVE NewsInv' /\ NoneOlder
  <2>1. Kept
    BY <1>1, <1>7 DEF Validate, Step, data, Working
  <2>2. QED
    BY <1>2, <2>1
<1>8. ASSUME NEW ok \in BOOLEAN, PublishStep(t, ok) PROVE NewsInv' /\ NoneOlder
  <2>1. /\ pc[t] = "publish" /\ pc' = [pc EXCEPT ![t] = IF ok THEN "done" ELSE "failed"]
        /\ UNCHANGED <<upstream, lock, answer>>
    BY <1>8 DEF PublishStep, Publish, Step
  <2>2. CASE file' = file
    <3>1. Kept
      BY <1>1, <2>1, <2>2 DEF Working
    <3>2. QED
      BY <1>2, <3>1
  <2>3. CASE file' = [file EXCEPT ![Of(t)] = [version |-> answer[t], age |-> 0]]
    <3>1. answer[t] \in Versions /\ answer[t] <= upstream
          /\ (file[Of(t)] # None => file[Of(t)].version <= answer[t])
      BY <2>1 DEF NewsInv, Typed
    <3>2. file'[Of(t)] = [version |-> answer[t], age |-> 0] /\ file'[Of(t)] # None
      BY <1>1, <2>3, <3>1, NewFile DEF NewsInv, Typed
    <3>3. \A e \in Exchanges : e # Of(t) => file'[e] = file[e]
      BY <2>3 DEF NewsInv, Typed
    <3>4. \A u \in Threads : u # t /\ Of(u) = Of(t) => pc[u] \notin Working
      BY <1>1, <2>1 DEF Working
    <3>5. NoneOlder
      <4>1. \A e \in Exchanges : file[e] # None => file[e].version \in Nat
        BY FileVersion DEF NewsInv
      <4>2. answer[t] \in Nat
        BY <3>1 DEF Versions
      <4>3. QED
        BY <3>1, <3>2, <3>3, <4>1, <4>2 DEF NoneOlder
    <3>6. \A e \in Exchanges : file'[e] # None => file'[e].version <= upstream'
      BY <2>1, <3>1, <3>2, <3>3 DEF NewsInv
    <3>7. \A u \in Threads : pc'[u] \in Working => lock'[Of(u)] = u
      BY <1>1, <2>1 DEF Working
    <3>8. ASSUME NEW u \in Threads, pc'[u] \in {"validate", "publish"}
          PROVE  answer'[u] <= upstream' /\ (file'[Of(u)] # None => file'[Of(u)].version <= answer'[u])
      <4>1. u # t /\ pc[u] \in {"validate", "publish"}
        BY <1>1, <2>1, <3>8
      <4>2. Of(u) # Of(t)
        BY <3>4, <4>1 DEF Working
      <4>3. file'[Of(u)] = file[Of(u)]
        BY <1>1, <3>3, <4>2
      <4>4. QED
        BY <2>1, <4>1, <4>3 DEF NewsInv
    <3>9. QED
      BY <3>5, <3>6, <3>7, <3>8 DEF NewsInv
  <2>4. QED
    BY <1>8, <2>2, <2>3 DEF PublishStep, Publish
<1>9. QED
  BY <1>3, <1>4, <1>5, <1>6, <1>7, <1>8 DEF Refresh

LEMMA NewsNext == NewsInv /\ [Next]_vars => NewsInv' /\ NoneOlder
<1> SUFFICES ASSUME NewsInv, [Next]_vars PROVE NewsInv' /\ NoneOlder
  OBVIOUS
<1>1. Typed /\ Typed'
  BY TypedNext DEF NewsInv
<1>2. \A e \in Exchanges : file[e] # None => file[e].version \in Nat
  BY <1>1, FileVersion
<1>3. CASE Tick
  <2>1. \A e \in Exchanges : /\ file[e] = None => file'[e] = None
                             /\ file[e] # None => file'[e] # None /\ file'[e].version = file[e].version
    BY <1>1, <1>3, AgedFiles
  <2>2. UNCHANGED <<upstream, lock, pc, answer>>
    BY <1>3 DEF Tick, threads
  <2>3. NoneOlder
    BY <1>2, <2>1 DEF NoneOlder
  <2>4. \A e \in Exchanges : file'[e] # None => file'[e].version <= upstream'
    BY <2>1, <2>2 DEF NewsInv
  <2>5. ASSUME NEW t \in Threads, pc'[t] \in {"validate", "publish"}
        PROVE  answer'[t] <= upstream' /\ (file'[Of(t)] # None => file'[Of(t)].version <= answer'[t])
    BY <2>1, <2>2, <2>5, OfType DEF NewsInv
  <2>6. QED
    BY <1>1, <2>2, <2>3, <2>4, <2>5 DEF NewsInv
<1>4. CASE Publication
  <2>1. upstream' = upstream + 1 /\ UNCHANGED <<file, lock, pc, answer>> /\ upstream \in Nat
    BY <1>1, <1>4 DEF Publication, threads, Typed, Versions
  <2>2. \A t \in Threads : pc[t] \in {"validate", "publish"} => answer[t] \in Nat
    BY <1>1 DEF Typed, Versions
  <2>3. NoneOlder
    BY <1>2, <2>1 DEF NoneOlder
  <2>4. QED
    BY <1>1, <1>2, <2>1, <2>2, <2>3 DEF NewsInv
<1>5. CASE Start
  <2>1. /\ UNCHANGED <<file, upstream, lock, answer>>
        /\ pc' = [t \in Threads |-> IF pc[t] = "off" THEN "loop" ELSE pc[t]]
    BY <1>5 DEF Start, data
  <2>2. QED
    BY <1>1, <2>1, NewsKept DEF Working, NewsInv
<1>6. ASSUME NEW t \in Threads, Refresh(t) PROVE NewsInv' /\ NoneOlder
  BY <1>1, <1>6, NewsRefresh
<1>7. CASE Restart
  <2>1. UNCHANGED <<file, upstream>> /\ pc' = [t \in Threads |-> "off"]
    BY <1>7 DEF Restart
  <2>2. QED
    BY <1>1, <2>1, NewsKept DEF Working
<1>8. CASE StopMarket \/ CloseFetches \/ ReapChildren \/ (\E r \in Readers : Request(r)) \/ UNCHANGED vars
  <2>1. UNCHANGED <<data, threads>>
    BY <1>8 DEF StopMarket, CloseFetches, ReapChildren, Request, Ask, ReadStatus, Answer, vars
  <2>2. QED
    BY <1>1, <2>1, NewsKept DEF data, threads, NewsInv
<1>9. QED
  BY <1>3, <1>4, <1>5, <1>6, <1>7, <1>8 DEF Next

\* However many callers refresh a list at once, and wherever they fail or are
\* stopped: its file is only ever replaced by one of at least its version
\* (market.py:118-131, 200-223).
THEOREM ListsNeverRevert == Spec => NewsNeverReverts
<1>1. NewsInv /\ [Next]_vars => [NoneOlder]_vars
  BY NewsNext
<1>2. QED
  BY <1>1, NewsInit, NewsNext, PTL DEF Spec, NewsNeverReverts, NoneOlder

-----------------------------------------------------------------------------
(* What requests are told. *)

(* A list that was tried for is being loaded, or failed, or is there.        *)
Accounted(e) == since[e] = None \/ e \in refreshing \/ e \in errors \/ file[e] # None

ReadersTyped ==
    reader \in [Readers -> [of : Exchanges \cup {None}, at : {"idle", "status", "archive"},
                           listed : BOOLEAN, loading : BOOLEAN, error : BOOLEAN]]

(* What the status said of a request's list is accounted for by the file     *)
(* that the request has still to read.                                       *)
Explained(r) ==
    /\ reader[r].at # "idle" => started /\ reader[r].of \in Exchanges
    /\ reader[r].at = "archive" /\ ~reader[r].listed /\ ~reader[r].loading /\ ~reader[r].error
         => stopping \/ file[reader[r].of] # None

ReadersInv ==
    /\ DOMAIN since = Exchanges /\ ReadersTyped
    /\ \A e \in Exchanges : Accounted(e)
    /\ \A t \in Threads : pc[t] = "done" => file[Of(t)] # None
    /\ \A r \in Readers : Explained(r)

LEMMA ReadersAreTold == ReadersInv => AbsenceIsExplained
  BY DEF ReadersInv, ReadersTyped, Explained, AbsenceIsExplained, Told

LEMMA ReadersInit == Init => ReadersInv
<1> SUFFICES ASSUME Init PROVE ReadersInv
  OBVIOUS
<1>1. /\ reader = [r \in Readers |-> Idle] /\ since = [e \in Exchanges |-> None]
      /\ pc = [t \in Threads |-> "off"]
  BY DEF Init, Volatile
<1>2. QED
  BY <1>1 DEF ReadersInv, ReadersTyped, Explained, Accounted, Idle, Reading

(* No step takes a list away. *)
LEMMA ListsStay == NewsInv /\ [Next]_vars => \A e \in Exchanges : file[e] # None => file'[e] # None
  BY NewsNext DEF NoneOlder

(* The steps of a refresh: an attempt is shown as it is dated, and it is     *)
(* shown no longer only when the list is stored or the failure recorded.     *)
LEMMA RefreshAccounts ==
  ASSUME NewsInv, ReadersInv, NEW t \in Threads, Refresh(t),
         \A e \in Exchanges : file[e] # None => file'[e] # None
  PROVE  ReadersInv'
<1>1. pc \in [Threads -> Places] /\ Of(t) \in Exchanges /\ file \in [Exchanges -> Files]
  BY OfType DEF NewsInv, Typed
<1>2. UNCHANGED <<reader, started, stopping>>
  BY DEF Refresh, Enter, NothingToDo, Attempt, Call, Refused, Answered, NoAnswer, Validate,
     PublishStep, Finish, Again, life
<1>3. ReadersTyped' /\ \A r \in Readers : Explained(r)'
  BY <1>2 DEF ReadersInv, ReadersTyped, Explained
<1>4. CASE Attempt(t)
  <2>1. /\ since' = [since EXCEPT ![Of(t)] = 0] /\ refreshing' = refreshing \cup {Of(t)}
        /\ pc' = [pc EXCEPT ![t] = "call"] /\ UNCHANGED <<file, errors>>
    BY <1>4 DEF Attempt, Begin, Step
  <2>2. QED
    BY <1>1, <1>3, <2>1 DEF ReadersInv, Accounted
<1>5. CASE Finish(t)
  <2>1. /\ pc[t] \in {"done", "failed"} /\ pc' = [pc EXCEPT ![t] = "wait"]
        /\ UNCHANGED <<since, file>> /\ refreshing' = refreshing \ {Of(t)}
        /\ errors' = IF pc[t] = "failed" THEN errors \cup {Of(t)} ELSE errors \ {Of(t)}
    BY <1>5 DEF Finish, data
  <2>2. pc[t] = "done" => file[Of(t)] # None
    BY DEF ReadersInv
  <2>3. ASSUME NEW e \in Exchanges PROVE Accounted(e)'
    BY <2>1, <2>2 DEF ReadersInv, Accounted
  <2>4. QED
    BY <1>1, <1>3, <2>1, <2>3 DEF ReadersInv
<1>6. ASSUME NEW ok \in BOOLEAN, PublishStep(t, ok) PROVE ReadersInv'
  <2>1. /\ pc' = [pc EXCEPT ![t] = IF ok THEN "done" ELSE "failed"]
        /\ UNCHANGED <<since, shown>>
        /\ ok => file' = [file EXCEPT ![Of(t)] = [version |-> answer[t], age |-> 0]]
    BY <1>6 DEF PublishStep, Publish, Step
  <2>2. ok => answer[t] \in Versions
    BY <1>6 DEF PublishStep, Publish, Step, NewsInv, Typed
  <2>3. ok => file'[Of(t)] # None
    BY <1>1, <2>1, <2>2, NewFile
  <2>4. \A u \in Threads : pc'[u] = "done" => file'[Of(u)] # None
    BY <1>1, <2>1, <2>3, OfType DEF ReadersInv
  <2>5. QED
    BY <1>3, <2>1, <2>4 DEF ReadersInv, Accounted, shown
<1>7. CASE UNCHANGED <<since, file, shown>> /\ \A u \in Threads : pc'[u] = "done" => pc[u] = "done"
  BY <1>3, <1>7 DEF ReadersInv, Accounted, shown
<1>8. QED
  <2>1. CASE Enter(t) \/ NothingToDo(t) \/ Call(t) \/ Refused(t) \/ Answered(t) \/ NoAnswer(t)
             \/ Again(t)
    BY <1>1, <1>7, <2>1 DEF Enter, NothingToDo, Call, Refused, Answered, NoAnswer, Again, Step, data
  <2>2. ASSUME NEW ok \in BOOLEAN, Validate(t, ok) PROVE ReadersInv'
    BY <1>1, <1>7, <2>2 DEF Validate, Step, data
  <2>3. QED
    BY <1>4, <1>5, <1>6, <2>1, <2>2 DEF Refresh

LEMMA ReadersNext == NewsInv /\ ReadersInv /\ [Next]_vars => ReadersInv'
<1> SUFFICES ASSUME NewsInv, ReadersInv, [Next]_vars PROVE ReadersInv'
  OBVIOUS
<1>1. /\ \A e \in Exchanges : file[e] # None => file'[e] # None
      /\ pc \in [Threads -> Places] /\ \A t \in Threads : Of(t) \in Exchanges
  BY ListsStay, OfType DEF NewsInv, Typed
<1>2. ASSUME UNCHANGED <<since, shown, pc>> PROVE
        /\ DOMAIN since' = Exchanges /\ \A e \in Exchanges : Accounted(e)'
        /\ \A t \in Threads : pc'[t] = "done" => file'[Of(t)] # None
  BY <1>1, <1>2 DEF ReadersInv, Accounted, shown
<1>3. CASE UNCHANGED <<since, shown, pc, reader, started>> /\ (stopping => stopping')
  BY <1>1, <1>2, <1>3 DEF ReadersInv, ReadersTyped, Explained
<1>4. ASSUME NEW r \in Readers, NEW e \in Exchanges, Ask(r, e) PROVE ReadersInv'
  <2>1. reader' = [reader EXCEPT ![r] = Reading("status", e, IsUsable(e), FALSE, FALSE)] /\ started
        /\ UNCHANGED <<data, shown, pc, started, stopping>>
    BY <1>4 DEF Ask, threads, life
  <2>2. IsUsable(e) \in BOOLEAN
    BY DEF IsUsable
  <2>3. ReadersTyped' /\ \A q \in Readers : Explained(q)'
    BY <2>1, <2>2 DEF ReadersInv, ReadersTyped, Explained, Reading, data
  <2>4. QED
    BY <1>2, <2>1, <2>3 DEF ReadersInv, data
<1>5. ASSUME NEW r \in Readers, ReadStatus(r) PROVE ReadersInv'
  <2> DEFINE e == reader[r].of
             now == Loading(e, reader[r].listed)
             failed == e \in errors
  <2>1. /\ reader[r].at = "status" /\ UNCHANGED <<data, shown, pc, started, stopping>>
        /\ reader' = [reader EXCEPT ![r] = Reading("archive", e, reader[r].listed, now, failed)]
    BY <1>5 DEF ReadStatus, threads, life
  <2>2. e \in Exchanges /\ started /\ Accounted(e)
    BY <2>1 DEF ReadersInv, Explained
  <2>3. /\ now \in BOOLEAN /\ failed \in BOOLEAN
        /\ ~now /\ ~reader[r].listed /\ ~failed => stopping \/ file[e] # None
    BY <2>2 DEF Loading, Accounted
  <2> HIDE DEF now, failed
  <2>4. ReadersTyped'
    BY <2>1, <2>2, <2>3 DEF ReadersInv, ReadersTyped, Reading
  <2>5. ASSUME NEW q \in Readers PROVE Explained(q)'
    BY <2>1, <2>2, <2>3 DEF ReadersInv, ReadersTyped, Explained, Reading, data
  <2>6. QED
    BY <1>2, <2>1, <2>4, <2>5 DEF ReadersInv, data
<1>6. ASSUME NEW r \in Readers, Answer(r) PROVE ReadersInv'
  <2>1. /\ reader' = [reader EXCEPT ![r] = Idle] /\ UNCHANGED <<data, shown, pc, started, stopping>>
    BY <1>6 DEF Answer, threads, life
  <2>2. ReadersTyped' /\ \A q \in Readers : Explained(q)'
    BY <2>1 DEF ReadersInv, ReadersTyped, Explained, Idle, Reading, data
  <2>3. QED
    BY <1>2, <2>1, <2>2 DEF ReadersInv, data
<1>7. CASE Restart
  <2>1. /\ reader' = [r \in Readers |-> Idle] /\ since' = [e \in Exchanges |-> None]
        /\ pc' = [t \in Threads |-> "off"]
    BY <1>7 DEF Restart
  <2>2. QED
    BY <2>1 DEF ReadersInv, ReadersTyped, Explained, Accounted, Idle, Reading
<1>8. CASE Tick
  <2>1. /\ UNCHANGED <<shown, pc, reader, started, stopping>> /\ DOMAIN since' = Exchanges
        /\ \A e \in Exchanges : since[e] = None => since'[e] = None
    BY <1>8 DEF Tick, threads, life
  <2>2. QED
    BY <1>1, <2>1 DEF ReadersInv, ReadersTyped, Explained, Accounted, shown
<1>9. CASE Start
  <2>1. /\ UNCHANGED <<data, shown, reader, stopping>> /\ started'
        /\ \A t \in Threads : pc'[t] = "done" => pc[t] = "done"
    BY <1>9 DEF Start
  <2>2. QED
    BY <2>1 DEF ReadersInv, ReadersTyped, Explained, Accounted, data, shown
<1>10. ASSUME NEW t \in Threads, Refresh(t) PROVE ReadersInv'
  BY <1>1, <1>10, RefreshAccounts
<1>11. CASE Publication \/ StopMarket \/ CloseFetches \/ ReapChildren \/ UNCHANGED vars
  BY <1>3, <1>11 DEF Publication, StopMarket, CloseFetches, ReapChildren, vars, data, threads, life
<1>12. QED
  BY <1>4, <1>5, <1>6, <1>7, <1>8, <1>9, <1>10, <1>11 DEF Next, Request

\* A request that is told a list is unavailable is told why, wherever refreshes
\* of that list start, succeed or fail between its reads (market.py:206-277).
THEOREM AbsenceHasItsReason == Spec => []AbsenceIsExplained
<1>1. Init => NewsInv /\ ReadersInv
  BY NewsInit, ReadersInit
<1>2. (NewsInv /\ ReadersInv) /\ [Next]_vars => (NewsInv /\ ReadersInv)'
  BY NewsNext, ReadersNext
<1>3. NewsInv /\ ReadersInv => AbsenceIsExplained
  BY ReadersAreTold
<1>4. QED
  BY <1>1, <1>2, <1>3, PTL DEF Spec

=============================================================================
