---------------------------- MODULE DecisionLog ----------------------------
(***************************************************************************)
(* What the decision memory promises: a decision that was stored waits     *)
(* until its outcome is known and becomes a lesson; it never just goes.    *)
(* Nothing here of files, rewrites or processes.  MemoryLog implements it  *)
(* as long as one process at a time uses the file.                         *)
(***************************************************************************)
EXTENDS Naturals

CONSTANTS Decisions,   \* runs: [ticker, date]
          Capped       \* is the number of lessons limited?

VARIABLES waiting,     \* decisions whose outcome is not known
          lessons      \* decisions with outcome and reflection

Init == waiting = {} /\ lessons = {}

Store(d) ==
    /\ d \notin waiting
    /\ waiting' = waiting \cup {d}
    /\ UNCHANGED lessons

(* Outcomes arrive for some decisions on one ticker at once.  Only a cap     *)
(* lets lessons go, the ones just learnt included; no other ticker's         *)
(* decision ceases to wait.                                                  *)
Learn(D) ==
    /\ D # {} /\ D \subseteq waiting
    /\ \A d, e \in D : d.ticker = e.ticker
    /\ waiting' = waiting \ D
    /\ lessons' \in SUBSET (lessons \cup D)
    /\ ~Capped => lessons' = lessons \cup D

Next ==
    \/ \E d \in Decisions : Store(d)
    \/ \E D \in SUBSET waiting : Learn(D)

Spec == Init /\ [][Next]_<<waiting, lessons>>
=============================================================================
