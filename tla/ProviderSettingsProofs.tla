---------------------- MODULE ProviderSettingsProofs ----------------------
(* The provider list keeps its promises for any providers, catalogs,       *)
(* names, clients and tasks.                                               *)
EXTENDS ProviderSettings, TLAPS

(* A stored key belongs to a listed provider, be the list stored or derived. *)
KeysListed == keys \subseteq Listed

IInv == TypeOK /\ DefaultIsJoined /\ NamesUnique /\ KeysListed

USE DEF Providers

(* The list holds providers only, and every custom one on it has a name. *)
LEMMA ListedTypes ==
    ASSUME TypeOK
    PROVE  /\ Listed \subseteq Providers
           /\ \A p \in Listed \cap Custom : name[p] # None
BY ProviderAssumption DEF TypeOK, Listed

LEMMA InitIInv == Init => IInv
<1> SUFFICES ASSUME Init PROVE IInv
  OBVIOUS
<1> USE ProviderAssumption, CatalogAssumption, NameAssumption DEF Init
<1>1. TypeOK
  BY DEF TypeOK, Idle, Absent
<1>2. DefaultIsJoined
  BY DEF DefaultIsJoined, Listed
<1>3. NamesUnique
  BY DEF NamesUnique, NameOf, Listed
<1>4. KeysListed
  BY DEF KeysListed, Listed, Credentialed
<1> QED
  BY <1>1, <1>2, <1>3, <1>4 DEF IInv

(* A list that is written is the list from then on. *)
LEMMA Written ==
    ASSUME NEW list, Write(list)
    PROVE  stored' /\ joined' = list /\ Listed' = list
BY DEF Write, Listed

(* A provider that joins under a free name leaves names distinct. *)
LEMMA NamesAfterJoin ==
    ASSUME IInv, NEW new \in SUBSET BuiltIn,
           \A p \in new : NameFree(BuiltInName[p], p),
           Listed' = Listed \cup new, name' = name
    PROVE  NamesUnique'
<1> SUFFICES ASSUME NEW p \in Listed \cup new, NEW q \in Listed \cup new,
                    NameOf(p)' = NameOf(q)'
             PROVE  p = q
  BY DEF NamesUnique
<1>1. NameOf(p) = NameOf(q)
  BY DEF NameOf
<1>2. CASE p \in Listed /\ q \in Listed
  BY <1>1, <1>2 DEF IInv, NamesUnique
<1>3. CASE p \in new
  BY <1>1, <1>3, NameAssumption DEF NameOf, NameFree
<1>4. CASE q \in new
  BY <1>1, <1>4, NameAssumption DEF NameOf, NameFree
<1> QED
  BY <1>2, <1>3, <1>4

(* A list that only shrinks, with names as they are, keeps them distinct. *)
LEMMA NamesKept ==
    ASSUME IInv, Listed' \subseteq Listed, name' = name
    PROVE  NamesUnique'
BY DEF IInv, NamesUnique, NameOf

(* A custom provider that joins, or is renamed, under a free name. *)
LEMMA NamesAfterNaming ==
    ASSUME IInv, NEW p \in Custom, NEW n \in Names, NameFree(n, p),
           Listed' = Listed \cup {p}, name' = [name EXCEPT ![p] = n]
    PROVE  NamesUnique'
<1> SUFFICES ASSUME NEW q \in Listed \cup {p}, NEW r \in Listed \cup {p},
                    NameOf(q)' = NameOf(r)'
             PROVE  q = r
  BY DEF NamesUnique
<1>1. name \in [Custom -> Names \cup {None}] /\ p \notin BuiltIn
  BY ProviderAssumption DEF IInv, TypeOK
<1>2. \A s \in Listed \ {p} : NameOf(s)' = NameOf(s) /\ NameOf(s) # n
  BY <1>1, ListedTypes DEF IInv, NameOf, NameFree
<1>3. NameOf(p)' = n
  BY <1>1 DEF NameOf
<1>4. CASE q # p /\ r # p
  BY <1>2, <1>4 DEF IInv, NamesUnique
<1> QED
  BY <1>2, <1>3, <1>4

-----------------------------------------------------------------------------
(* Operations on the list: each writes it, and decides on what it wrote. *)
LEMMA ListIInv ==
    ASSUME IInv, ProviderList
    PROVE  IInv'
<1> USE ProviderAssumption
<1>0. TypeOK /\ DefaultIsJoined /\ KeysListed /\ Listed \subseteq Providers
      /\ (\A p \in Listed \cap Custom : name[p] # None)
  BY ListedTypes DEF IInv
<1>1. ASSUME NEW p \in BuiltIn, NEW withKey \in BOOLEAN, AddBuiltIn(p, withKey)
      PROVE  IInv'
  <2>1. stored' /\ joined' = Listed \cup {p} /\ Listed' = Listed \cup {p}
    BY <1>1, Written DEF AddBuiltIn
  <2>2. TypeOK'
    BY <1>0, <1>1, <2>1 DEF TypeOK, AddBuiltIn
  <2>3. NamesUnique'
    BY <1>1, <2>1, NamesAfterJoin DEF AddBuiltIn
  <2>4. DefaultIsJoined' /\ KeysListed'
    BY <1>0, <1>1, <2>1 DEF DefaultIsJoined, KeysListed, AddBuiltIn
  <2> QED
    BY <2>2, <2>3, <2>4 DEF IInv
<1>2. ASSUME NEW p \in Custom, NEW n \in Names, NEW withKey \in BOOLEAN,
             AddCustom(p, n, withKey)
      PROVE  IInv'
  <2>1. stored' /\ joined' = Listed \cup {p} /\ Listed' = Listed \cup {p}
    BY <1>2, Written DEF AddCustom
  <2>2. TypeOK'
    BY <1>0, <1>2, <2>1 DEF TypeOK, AddCustom
  <2>3. NamesUnique'
    BY <1>2, <2>1, NamesAfterNaming DEF AddCustom
  <2>4. DefaultIsJoined' /\ KeysListed'
    BY <1>0, <1>2, <2>1 DEF DefaultIsJoined, KeysListed, AddCustom
  <2> QED
    BY <2>2, <2>3, <2>4 DEF IInv
<1>3. ASSUME NEW p \in Providers, NEW n \in Names \cup {None},
             NEW keyChange \in {"keep", "set", "clear"}, Edit(p, n, keyChange)
      PROVE  IInv'
  <2>1. stored' /\ joined' = Listed /\ Listed' = Listed
    BY <1>3, Written DEF Edit
  <2>2. keys' \subseteq keys \cup {p}
    BY <1>3 DEF Edit
  <2>3. TypeOK'
    BY <1>0, <1>3, <2>1, <2>2 DEF TypeOK, Edit
  <2>4. NamesUnique'
    <3>1. CASE n = None
      BY <1>3, <2>1, <3>1, NamesKept DEF Edit
    <3>2. CASE n # None
      BY <1>3, <2>1, <3>2, NamesAfterNaming DEF Edit
    <3> QED
      BY <3>1, <3>2
  <2>5. DefaultIsJoined' /\ KeysListed'
    BY <1>0, <1>3, <2>1, <2>2 DEF DefaultIsJoined, KeysListed, Edit
  <2> QED
    BY <2>3, <2>4, <2>5 DEF IInv
<1>4. ASSUME NEW p \in Providers, Remove(p)
      PROVE  IInv'
  <2>1. stored' /\ joined' = Listed \ {p} /\ Listed' = Listed \ {p}
    BY <1>4, Written DEF Remove
  <2>2. TypeOK'
    BY <1>0, <1>4, <2>1 DEF TypeOK, Remove
  <2>3. NamesUnique'
    BY <1>4, <2>1, NamesKept DEF Remove
  <2>4. DefaultIsJoined' /\ KeysListed'
    BY <1>0, <1>4, <2>1 DEF DefaultIsJoined, KeysListed, Remove, Removable
  <2> QED
    BY <2>2, <2>3, <2>4 DEF IInv
<1> QED
  BY <1>1, <1>2, <1>3, <1>4 DEF ProviderList

(* The commit of an update, which relies on nothing its request has read. *)
LEMMA CommitIInv ==
    ASSUME IInv, NEW c \in Clients, Commit(c)
    PROVE  IInv'
<1> USE ProviderAssumption
<1> DEFINE u == request[c]
           new == (NewlyJoined(u) \cap BuiltIn) \ Listed
<1>0. TypeOK /\ DefaultIsJoined /\ KeysListed /\ Listed \subseteq Providers
      /\ (\A p \in Listed \cap Custom : name[p] # None) /\ u \in Updates
  <2>1. u \in Updates
    BY DEF IInv, TypeOK, Commit, Idle
  <2> QED
    BY <2>1, ListedTypes DEF IInv
<1>1. /\ u.provider \in BuiltIn \cup Listed
      /\ \A p \in new : NameFree(BuiltInName[p], p)
      /\ default' = IF u.given THEN u.provider ELSE default
      /\ model' \in Models
      /\ keys' \subseteq keys \cup ({u.key} \ {None})
      /\ UNCHANGED <<name, task>>
      /\ request' = [request EXCEPT ![c] = Idle]
  BY <1>0 DEF Commit, StillValid, Goto, TypeOK, Updates
<1>2. default' \in Listed \cup new
  BY <1>0, <1>1 DEF DefaultIsJoined, NewlyJoined
<1>3. keys' \subseteq Listed \cup new /\ u.key \in BuiltIn \cup {None}
  BY <1>0, <1>1 DEF KeysListed, NewlyJoined, Updates
<1>4. CASE new # {}
  <2>1. stored' /\ joined' = Listed \cup new /\ Listed' = Listed \cup new
    BY <1>4, Written DEF Commit
  <2>2. TypeOK'
    BY <1>0, <1>1, <1>2, <1>3, <2>1 DEF TypeOK
  <2>3. NamesUnique'
    BY <1>1, <2>1, NamesAfterJoin
  <2>4. DefaultIsJoined' /\ KeysListed'
    BY <1>2, <1>3, <2>1 DEF DefaultIsJoined, KeysListed
  <2> QED
    BY <2>2, <2>3, <2>4 DEF IInv
<1>5. CASE new = {} /\ stored
  <2>1. stored' /\ UNCHANGED <<stored, joined>> /\ Listed' = Listed
    BY <1>5 DEF Commit, Listed
  <2>2. TypeOK'
    BY <1>0, <1>1, <1>2, <1>3, <1>5, <2>1 DEF TypeOK
  <2>3. NamesUnique'
    BY <1>1, <2>1, NamesKept
  <2>4. DefaultIsJoined' /\ KeysListed'
    BY <1>2, <1>3, <1>5, <2>1 DEF DefaultIsJoined, KeysListed
  <2> QED
    BY <2>2, <2>3, <2>4 DEF IInv
<1>6. CASE new = {} /\ ~stored
  <2>1. ~stored' /\ UNCHANGED <<stored, joined>>
    BY <1>6 DEF Commit
  <2>2. Listed \subseteq BuiltIn /\ Listed' \subseteq BuiltIn
    BY <1>6, <2>1 DEF Listed
  <2>3. TypeOK'
    BY <1>0, <1>1, <1>2, <1>3, <1>6, <2>1, <2>2 DEF TypeOK
  <2>4. NamesUnique'
    BY <1>1, <2>2, NameAssumption DEF NamesUnique, NameOf
  <2>5. DefaultIsJoined' /\ KeysListed'
    BY <1>2, <1>3, <1>6, <2>1, <2>2 DEF DefaultIsJoined, KeysListed, Listed, Credentialed
  <2> QED
    BY <2>3, <2>4, <2>5 DEF IInv
<1> QED
  BY <1>4, <1>5, <1>6

-----------------------------------------------------------------------------
(* All other steps leave the settings alone. *)
LEMMA SettingsKept ==
    ASSUME IInv, UNCHANGED settingVars, TypeOK'
    PROVE  IInv' /\ Listed' = Listed
<1>1. Listed' = Listed
  BY DEF settingVars, Listed, Credentialed
<1>2. NamesUnique'
  BY <1>1, NamesKept DEF settingVars
<1>3. DefaultIsJoined' /\ KeysListed'
  BY <1>1 DEF IInv, DefaultIsJoined, KeysListed, settingVars
<1> QED
  BY <1>1, <1>2, <1>3 DEF IInv

LEMMA RequestTypes ==
    ASSUME IInv, NEW c \in Clients,
           \/ \E p \in Providers \cup {None}, m \in Models \cup {None},
                 key \in BuiltIn \cup {None}, clear \in BuiltIn \cup {None} :
                    ReadSettings(c, p, m, key, clear)
           \/ CreateTask(c) \/ GiveUp(c)
    PROVE  TypeOK' /\ UNCHANGED settingVars
<1> USE ProviderAssumption, CatalogAssumption DEF settingVars, Goto
<1>0. TypeOK /\ Listed \subseteq Providers
  BY ListedTypes DEF IInv
<1>1. ASSUME NEW p \in Providers \cup {None}, NEW m \in Models \cup {None},
             NEW key \in BuiltIn \cup {None}, NEW clear \in BuiltIn \cup {None},
             ReadSettings(c, p, m, key, clear)
      PROVE  TypeOK' /\ UNCHANGED settingVars
  <2> DEFINE provider == IF p = None THEN default ELSE p
             chosen == IF m # None THEN m
                       ELSE IF provider = default THEN model
                       ELSE IF provider \in BuiltIn THEN Fallback[provider] ELSE None
             r == [step |-> "commit", provider |-> provider, given |-> p # None,
                   model |-> IF m # None \/ provider # default THEN chosen ELSE None,
                   key |-> key, clear |-> clear]
  <2>1. provider \in Providers /\ chosen \in Models \cup {None}
    BY <1>0 DEF TypeOK
  <2>2. r \in Updates
    BY <2>1 DEF Updates
  <2>3. request' = [request EXCEPT ![c] = r] /\ UNCHANGED <<settingVars, task>>
    BY <1>1 DEF ReadSettings
  <2> QED
    BY <1>0, <2>2, <2>3 DEF TypeOK
<1>2. ASSUME NEW p \in Providers \cup {None}, NEW m \in Models \cup {None}, Validate(c, p, m)
      PROVE  TypeOK' /\ UNCHANGED settingVars
  <2>1. PICK params \in TaskParams :
           request' = [request EXCEPT ![c] = [step |-> "resolve", params |-> params]]
    BY <1>0, <1>2 DEF Validate, TaskParams, TypeOK
  <2> QED
    BY <1>0, <1>2, <2>1 DEF Validate, TypeOK
<1>3. ASSUME NEW t \in Tasks, Rerun(c, t) PROVE TypeOK' /\ UNCHANGED settingVars
  BY <1>0, <1>3 DEF Rerun, TypeOK
<1>4. ASSUME Resolve(c) PROVE TypeOK' /\ UNCHANGED settingVars
  BY <1>0, <1>4 DEF Resolve, TypeOK, Updates, Idle
<1>5. ASSUME NEW t \in Tasks, InsertTask(c, t) PROVE TypeOK' /\ UNCHANGED settingVars
  <2>1. request[c].params \in TaskParams
    BY <1>0, <1>5 DEF InsertTask, TypeOK, Updates, Idle
  <2> QED
    BY <1>0, <1>5, <2>1 DEF InsertTask, TypeOK
<1>6. ASSUME GiveUp(c) PROVE TypeOK' /\ UNCHANGED settingVars
  BY <1>0, <1>6 DEF GiveUp, TypeOK
<1> QED
  BY <1>1, <1>2, <1>3, <1>4, <1>5, <1>6 DEF CreateTask

LEMMA EndTypes ==
    ASSUME IInv, NEW t \in Tasks, EndTask(t)
    PROVE  TypeOK' /\ UNCHANGED settingVars
BY DEF IInv, TypeOK, EndTask, Unfinished, Absent, settingVars

LEMMA NextIInv == IInv /\ [Next]_vars => IInv'
<1> SUFFICES ASSUME IInv, [Next]_vars PROVE IInv'
  OBVIOUS
<1>1. CASE ProviderList
  BY <1>1, ListIInv
<1>2. ASSUME NEW c \in Clients, Update(c) \/ CreateTask(c) \/ GiveUp(c) PROVE IInv'
  BY <1>2, CommitIInv, RequestTypes, SettingsKept, ProviderAssumption DEF Update
<1>3. ASSUME NEW t \in Tasks, EndTask(t) PROVE IInv'
  BY <1>3, EndTypes, SettingsKept
<1>4. CASE UNCHANGED vars
  <2>1. TypeOK'
    BY <1>4 DEF IInv, TypeOK, vars, settingVars
  <2> QED
    BY <1>4, <2>1, SettingsKept DEF vars
<1> QED
  BY <1>1, <1>2, <1>3, <1>4 DEF Next

LEMMA Invariance == Spec => []IInv
BY InitIInv, NextIInv, PTL DEF Spec

(* Every reachable state is well typed. *)
THEOREM TypeCorrect == Spec => []TypeOK
<1>1. IInv => TypeOK
  BY DEF IInv
<1> QED
  BY <1>1, Invariance, PTL

(* The default provider is always on the list. *)
THEOREM DefaultStaysListed == Spec => []DefaultIsJoined
<1>1. IInv => DefaultIsJoined
  BY DEF IInv
<1> QED
  BY <1>1, Invariance, PTL

(* No two listed providers share a name, by whatever way they joined. *)
THEOREM NamesStayUnique == Spec => []NamesUnique
<1>1. IInv => NamesUnique
  BY DEF IInv
<1> QED
  BY <1>1, Invariance, PTL

(* Once the list is stored, keys belong to providers on it. *)
THEOREM NoKeyLeftBehind == Spec => []KeysOfJoined
<1>1. IInv => KeysOfJoined
  BY DEF IInv, KeysListed, KeysOfJoined, Listed
<1> QED
  BY <1>1, Invariance, PTL

(* The list a request leaves behind is sound. *)
THEOREM ListStaysSound == Spec => []ListIsSound
<1> QED
  BY DefaultStaysListed, NamesStayUnique, NoKeyLeftBehind, PTL DEF ListIsSound

-----------------------------------------------------------------------------
(* While the list is stored, tasks are created under listed providers and  *)
(* keep them there until they are finished.                                *)
THEOREM OpenTasksKeepProvider == Spec => OutstandingKeepsProvider
<1> DEFINE Kept == \A t \in Tasks :
             stored /\ task'[t].status = "unfinished"
                    /\ (task[t] = Absent \/ task[t].params.provider \in Listed)
                 => task'[t].params.provider \in Listed'
<1>1. ASSUME IInv, Next PROVE Kept
  <2> SUFFICES ASSUME NEW t \in Tasks, stored, task'[t].status = "unfinished",
                      task[t] = Absent \/ task[t].params.provider \in Listed
               PROVE  task'[t].params.provider \in Listed'
    OBVIOUS
  <2>0. TypeOK /\ Listed = joined
    BY <1>1 DEF IInv, Listed
  <2>1. CASE ProviderList
    <3>1. UNCHANGED task
      BY <2>1 DEF ProviderList, AddBuiltIn, AddCustom, Edit, Remove
    <3>2. Listed \subseteq Listed' \/ \E p \in Providers : Remove(p) /\ Listed' = Listed \ {p}
      <4>1. \A p, withKey : AddBuiltIn(p, withKey) => Listed' = Listed \cup {p}
        BY Written DEF AddBuiltIn
      <4>2. \A p, n, withKey : AddCustom(p, n, withKey) => Listed' = Listed \cup {p}
        BY Written DEF AddCustom
      <4>3. \A p, n, keyChange : Edit(p, n, keyChange) => Listed' = Listed
        BY Written DEF Edit
      <4>4. \A p : Remove(p) => Listed' = Listed \ {p}
        BY Written DEF Remove
      <4> QED
        BY <2>1, <4>1, <4>2, <4>3, <4>4 DEF ProviderList
    <3>3. task[t] # Absent
      BY <3>1 DEF Absent
    <3> QED
      BY <3>1, <3>2, <3>3 DEF Remove, Removable, Unfinished
  <2>2. ASSUME NEW c \in Clients, Commit(c) PROVE task'[t].params.provider \in Listed'
    <3>1. UNCHANGED task /\ Listed \subseteq Listed'
      BY <2>0, <2>2 DEF Commit, Write, Listed
    <3> QED
      BY <3>1 DEF Absent
  <2>3. ASSUME NEW c \in Clients, NEW s \in Tasks, InsertTask(c, s)
        PROVE  task'[t].params.provider \in Listed'
    <3>1. Listed' = Listed
      BY <2>3 DEF InsertTask, settingVars, Listed, Credentialed
    <3>2. CASE t = s
      BY <2>0, <2>3, <3>1, <3>2 DEF InsertTask, TypeOK
    <3>3. CASE t # s
      BY <2>0, <2>3, <3>1, <3>3 DEF InsertTask, TypeOK, Absent
    <3> QED
      BY <3>2, <3>3
  <2>4. ASSUME UNCHANGED <<settingVars, task>> PROVE task'[t].params.provider \in Listed'
    BY <2>4 DEF settingVars, Listed, Credentialed, Absent
  <2>5. ASSUME NEW s \in Tasks, EndTask(s) PROVE task'[t].params.provider \in Listed'
    <3>1. t # s /\ task'[t] = task[t] /\ Listed' = Listed
      BY <2>0, <2>5 DEF EndTask, TypeOK, settingVars, Listed, Credentialed, Unfinished, Absent
    <3> QED
      BY <3>1 DEF Absent
  <2> QED
    BY <1>1, <2>1, <2>2, <2>3, <2>4, <2>5
    DEF Next, Update, CreateTask, ReadSettings, Validate, Rerun, Resolve, GiveUp
<1>2. ASSUME IInv, [Next]_vars PROVE [Kept]_vars
  BY <1>1, <1>2
<1> QED
  BY <1>2, Invariance, PTL DEF Spec, OutstandingKeepsProvider
=============================================================================
