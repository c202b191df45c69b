------------------------- MODULE ProviderSettings -------------------------
(***************************************************************************)
(* web/settings.py on the settings table of web/store.py: the list of      *)
(* joined providers, the default provider with its model, the stored keys, *)
(* and the requests that change them or rely on them.                      *)
(*                                                                         *)
(* Adding, editing and removing a provider read and write in one immediate *)
(* transaction.  Changing the defaults reads the settings first, computes  *)
(* the writes, and commits them in a later transaction; creating a task    *)
(* validates against one read, resolves against another and inserts in a   *)
(* third.  Requests run on a pool of threads, so these steps interleave.   *)
(*                                                                         *)
(* Until the list is first written it is derived from the default provider *)
(* and the keys at hand.  The quick and the deep model are treated alike,  *)
(* so one model stands for both.                                           *)
(***************************************************************************)
EXTENDS FiniteSets

CONSTANTS BuiltIn,    \* WEB_PROVIDERS
          Custom,     \* ids custom:<uuid> that may be minted
          First,      \* "openai", the default of a fresh installation
          Keyless,    \* built-in providers that need no key (ollama, bedrock)
          Env,        \* built-in providers whose key is in the environment
          Models,     \* model ids
          Options,    \* the catalog: the models a built-in provider lists
          AnyModel,   \* built-in providers whose catalog has the "custom" option
          Fallback,   \* a built-in provider's first listed model, or None
          Names, BuiltInName,
          Clients, Tasks,
          None

Providers == BuiltIn \cup Custom

ASSUME ProviderAssumption ==
    /\ First \in BuiltIn /\ None \notin Providers \cup Models \cup Names
    /\ Keyless \subseteq BuiltIn /\ Env \subseteq BuiltIn \ Keyless
    /\ BuiltIn \cap Custom = {} /\ AnyModel \subseteq BuiltIn
ASSUME CatalogAssumption ==
    /\ Options \in [BuiltIn -> SUBSET Models]
    /\ \A p \in BuiltIn : Fallback[p] \in Options[p] \cup {None}
    /\ Fallback[First] # None
ASSUME NameAssumption ==
    /\ BuiltInName \in [BuiltIn -> Names]
    /\ \A p, q \in BuiltIn : BuiltInName[p] = BuiltInName[q] => p = q

VARIABLES stored,   \* does the row "providers" exist?
          joined,   \* its contents
          default,  \* the row "provider"
          model,    \* the rows "quick_model" and "deep_model"
          keys,     \* providers with a row "key:<id>"
          name,     \* names of the custom providers; None before the id is minted
          task,     \* the tasks table: provider, model, finished or not
          request   \* the step each client's request stands at

settingVars == <<stored, joined, default, model, keys, name>>
vars == <<settingVars, task, request>>

Idle == [step |-> "idle"]
Absent == [status |-> "absent"]
TaskParams == [provider : Providers, model : Models]

Updates == [step : {"commit"}, provider : Providers, given : BOOLEAN,
            model : Models \cup {None}, key : BuiltIn \cup {None},
            clear : BuiltIn \cup {None}]

TypeOK ==
    /\ stored \in BOOLEAN
    /\ joined \subseteq Providers /\ (~stored => joined = {})
    /\ default \in Providers /\ model \in Models /\ keys \subseteq Providers
    /\ name \in [Custom -> Names \cup {None}]
    /\ \A p \in joined \cap Custom : name[p] # None
    /\ task \in [Tasks -> {Absent} \cup [status : {"unfinished", "ended"}, params : TaskParams]]
    /\ request \in [Clients -> {Idle} \cup Updates
                                 \cup [step : {"resolve", "insert"}, params : TaskParams]]

Init ==
    /\ stored = FALSE /\ joined = {}
    /\ default = First /\ model = Fallback[First]
    /\ keys \in SUBSET BuiltIn
    /\ name = [p \in Custom |-> None]
    /\ task = [t \in Tasks |-> Absent]
    /\ request = [c \in Clients |-> Idle]

-----------------------------------------------------------------------------
(* What the settings say.                                                  *)

Credentialed == keys \cup Env

Listed == IF stored THEN joined
          ELSE ({default} \cup Credentialed) \cap BuiltIn

NameOf(p) == IF p \in BuiltIn THEN BuiltInName[p] ELSE name[p]

NameFree(n, p) == \A q \in Listed \ {p} : NameOf(q) # n

Fits(p, m) == m # None /\ (p \in BuiltIn \ AnyModel => m \in Options[p])

Unfinished(t) == task[t].status = "unfinished"

Goto(c, r) == request' = [request EXCEPT ![c] = r]

Write(list) == stored' = TRUE /\ joined' = list

-----------------------------------------------------------------------------
(* Operations on the provider list, each one transaction.                  *)

\* The credential is optional: withKey says whether the body carries one.
AddBuiltIn(p, withKey) ==
    /\ p \notin Listed /\ NameFree(BuiltInName[p], p)
    /\ Write(Listed \cup {p})
    /\ keys' = IF withKey THEN keys \cup {p} ELSE keys
    /\ UNCHANGED <<default, model, name, task, request>>

AddCustom(p, n, withKey) ==
    /\ name[p] = None /\ NameFree(n, p)
    /\ Write(Listed \cup {p})
    /\ name' = [name EXCEPT ![p] = n]
    /\ keys' = IF withKey THEN keys \cup {p} ELSE keys
    /\ UNCHANGED <<default, model, task, request>>

\* A body may rename a custom provider (n, or None) and keep, set or clear the
\* key of either kind.
Edit(p, n, keyChange) ==
    /\ p \in Listed
    /\ n # None => p \in Custom /\ NameFree(n, p)
    /\ Write(Listed)
    /\ name' = IF n # None THEN [name EXCEPT ![p] = n] ELSE name
    /\ keys' = CASE keyChange = "keep" -> keys
                 [] keyChange = "set" -> keys \cup {p}
                 [] keyChange = "clear" -> keys \ {p}
    /\ UNCHANGED <<default, model, task, request>>

Removable_ThoughInUse(p) == p \in Listed \ {default}
Removable(p) ==
    /\ p \in Listed \ {default}
    /\ \A t \in Tasks : Unfinished(t) => task[t].params.provider # p

Remove(p) ==
    /\ Removable(p)
    /\ Write(Listed \ {p})
    /\ keys' = keys \ {p}
    /\ UNCHANGED <<default, model, name, task, request>>

-----------------------------------------------------------------------------
(* PATCH /settings: read, compute, commit.                                 *)

\* The body holds a provider (p), a model (m), a key to store and one to
\* clear; None where it has no such field.
ReadSettings(c, p, m, key, clear) ==
    LET provider == IF p = None THEN default ELSE p
        chosen == IF m # None THEN m
                  ELSE IF provider = default THEN model
                  ELSE IF provider \in BuiltIn THEN Fallback[provider] ELSE None
    IN  /\ request[c] = Idle
        /\ provider \in BuiltIn \cup Listed
        /\ Fits(provider, chosen)
        /\ Goto(c, [step |-> "commit", provider |-> provider, given |-> p # None,
                    model |-> IF m # None \/ provider # default THEN chosen ELSE None,
                    key |-> key, clear |-> clear])
        /\ UNCHANGED <<settingVars, task>>

NewlyJoined(u) == (IF u.given THEN {u.provider} ELSE {}) \cup {u.key}

\* What the transaction checks again: a custom provider may be gone by now,
\* and the name of a built-in one may be taken.
StillValid_NotRechecked(u, new) == \A p \in new : NameFree(BuiltInName[p], p)
StillValid(u, new) ==
    /\ u.provider \in BuiltIn \cup Listed
    /\ \A p \in new : NameFree(BuiltInName[p], p)

Commit(c) ==
    LET u == request[c]
        new == (NewlyJoined(u) \cap BuiltIn) \ Listed
    IN  /\ u.step = "commit"
        /\ StillValid(u, new)
        /\ IF new = {} THEN UNCHANGED <<stored, joined>> ELSE Write(Listed \cup new)
        /\ default' = IF u.given THEN u.provider ELSE default
        /\ model' = IF u.model # None THEN u.model ELSE model
        /\ keys' = (keys \cup ({u.key} \ {None})) \ {u.clear}
        /\ Goto(c, Idle)
        /\ UNCHANGED <<name, task>>

-----------------------------------------------------------------------------
(* POST /tasks and POST /tasks/{id}/rerun.                                 *)

Validate(c, p, m) ==
    LET provider == IF p = None THEN default ELSE p
        chosen == IF m # None THEN m ELSE model
    IN  /\ request[c] = Idle
        /\ provider \in Listed
        /\ provider \in Custom /\ provider # default => m # None
        /\ Fits(provider, chosen)
        /\ Goto(c, [step |-> "resolve", params |-> [provider |-> provider, model |-> chosen]])
        /\ UNCHANGED <<settingVars, task>>

Rerun(c, t) ==
    /\ request[c] = Idle /\ task[t] # Absent
    /\ Goto(c, [step |-> "resolve", params |-> task[t].params])
    /\ UNCHANGED <<settingVars, task>>

Resolve(c) ==
    LET params == request[c].params
    IN  /\ request[c].step = "resolve"
        /\ params.provider \in Listed
        /\ Fits(params.provider, params.model)
        /\ params.provider \in Custom \cup Keyless \cup Credentialed
        /\ Goto(c, [request[c] EXCEPT !.step = "insert"])
        /\ UNCHANGED <<settingVars, task>>

InsertTask(c, t) ==
    LET params == request[c].params
    IN  /\ request[c].step = "insert" /\ task[t] = Absent
        /\ stored => params.provider \in joined
        /\ task' = [task EXCEPT ![t] = [status |-> "unfinished", params |-> params]]
        /\ Goto(c, Idle)
        /\ UNCHANGED settingVars

\* A request whose next check fails answers with an error and changes nothing;
\* so does one whose client or process goes away between two steps.
GiveUp(c) ==
    /\ request[c] # Idle
    /\ Goto(c, Idle)
    /\ UNCHANGED <<settingVars, task>>

EndTask(t) ==
    /\ Unfinished(t)
    /\ task' = [task EXCEPT ![t].status = "ended"]
    /\ UNCHANGED <<settingVars, request>>

-----------------------------------------------------------------------------
ProviderList ==
    \/ \E p \in BuiltIn, withKey \in BOOLEAN : AddBuiltIn(p, withKey)
    \/ \E p \in Custom, n \in Names, withKey \in BOOLEAN : AddCustom(p, n, withKey)
    \/ \E p \in Providers, n \in Names \cup {None}, keyChange \in {"keep", "set", "clear"} :
           Edit(p, n, keyChange)
    \/ \E p \in Providers : Remove(p)

Update(c) ==
    \/ \E p \in Providers \cup {None}, m \in Models \cup {None} :
           ReadSettings(c, p, m, None, None)
    \/ \E key, clear \in BuiltIn \cup {None} : ReadSettings(c, None, None, key, clear)
    \/ Commit(c)

CreateTask(c) ==
    \/ \E p \in Providers \cup {None}, m \in Models \cup {None} : Validate(c, p, m)
    \/ \E t \in Tasks : Rerun(c, t)
    \/ Resolve(c)
    \/ \E t \in Tasks : InsertTask(c, t)

Next ==
    \/ ProviderList
    \/ \E c \in Clients : Update(c) \/ CreateTask(c) \/ GiveUp(c)
    \/ \E t \in Tasks : EndTask(t)

Spec == Init /\ [][Next]_vars

-----------------------------------------------------------------------------
(* The default provider is always on the list, whichever way the list is   *)
(* known: a default taken over by one request while another removes the    *)
(* same provider would leave every new task refused (settings.py:189 and   *)
(* 276 decide inside their transactions).                                  *)
DefaultIsJoined == default \in Listed

(* No two listed providers have one name: a custom provider may take the   *)
(* name of a built-in one that is not joined, and the latter may then not  *)
(* join by any of the three ways there are (_provider_name, 50-57).        *)
NamesUnique == \A p, q \in Listed : NameOf(p) = NameOf(q) => p = q

(* Once the list is stored, no key outlives its provider's membership: a   *)
(* key left behind is a credential the settings page no longer shows       *)
(* (remove_provider deletes it, update joins the provider of a new key).   *)
KeysOfJoined == stored => keys \subseteq joined

(* The three together: what a request leaves behind is a list a new task     *)
(* can be created from, whatever the other requests read before it.          *)
ListIsSound == DefaultIsJoined /\ NamesUnique /\ KeysOfJoined

(* While the list is stored, a task that is created has a listed provider, *)
(* and an unfinished task's provider stays listed: removal and insertion   *)
(* decide in transactions that exclude each other (settings.py:191,        *)
(* store.py:131), however old the request's validation is.                 *)
OutstandingKeepsProvider ==
    [][\A t \in Tasks :
         stored /\ task'[t].status = "unfinished"
                /\ (task[t] = Absent \/ task[t].params.provider \in Listed)
             => task'[t].params.provider \in Listed']_vars

(* The default model is one the default provider offers: settings.py:245   *)
(* checks the pair before it writes it.                                    *)
ModelsFitProvider == Fits(default, model)
=============================================================================
