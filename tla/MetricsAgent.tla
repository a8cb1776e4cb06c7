----------------------------- MODULE MetricsAgent -----------------------------
(* agent/metrics_agent.go, agent/metrics_reader.go and the input providers    *)
(* (inputs/http_provider.go, inputs/local_provider.go): which readers run.    *)
(*                                                                            *)
(* The main goroutine runs Start, and Stop then Start on SIGHUP.  The http    *)
(* provider's reloader is a goroutine that StartReloader spawns and that asks *)
(* the server at an interval, registers the inputs that are new and           *)
(* deregisters those that are gone.  StopReloader does not wait for it, so a  *)
(* pass may meet a Stop or a Start; overlapped records that it has.           *)
EXTENDS Naturals

CONSTANTS
  Versions,     \* the versions the server can give its configuration
  Configs,      \* [Versions -> SUBSET Keys]: the inputs each one configures
  LocalKeys,    \* the inputs the configuration directory can hold
  Providers,    \* config.Global.Providers: "local", "http" or both
  Accepted,     \* the input names that pass the filter and have a creator
  Flaky,        \* the keys whose configuration or initialisation may fail
  MaxReloads,   \* bound: SIGHUPs
  MaxChanges    \* bound: changes of the server's and the local configuration

HttpKeys == UNION {Configs[v] : v \in Versions}
Keys == HttpKeys \cup LocalKeys
NameOf(k) == k[1]
InputNames == {NameOf(k) : k \in Keys}
Named(n, keys) == {k \in keys : NameOf(k) = n}
NoVersion == ""
NoKey == <<>>
Reloaders == 1..(MaxReloads + 1)
Main == 0
Actors == {Main} \cup Reloaders

\* An input's name begins with its provider's (FormatInputName).
ASSUME AgentAssumption ==
  /\ Configs \in [Versions -> SUBSET HttpKeys]
  /\ HttpKeys \cap LocalKeys = {}
  /\ NoKey \notin Keys
  /\ NoVersion \notin Versions
  /\ Providers \subseteq {"local", "http"} /\ Providers # {}
  /\ MaxReloads \in Nat /\ MaxChanges \in Nat

VARIABLES
  remote,       \* the version the server serves
  dir,          \* the inputs in the configuration directory
  provider,     \* HTTPProvider: version, configMap, cache, add, del
  inputNames,   \* LocalProvider.inputNames
  token,        \* stopCh holds a token (capacity 1)
  record,       \* Readers.record: the state of the reader listed for a key
  lost,         \* readers that gather and that the record has forgotten
  pc,           \* where the main goroutine and the reloaders are
  sent, answer, \* LoadConfig: the version sent, the answer
  todo, key,    \* the keys left in a loop, the reader being stopped
  names,        \* start: the names left in the loop ...
  cur, rest,    \* ... over one provider, and the providers left
  panicked,     \* the process died of a panic
  reloads, changes,   \* the bounds' counters
  overlapped    \* history: a pass has met a Start or a Stop

providerVars == <<provider, inputNames>>
readerVars == <<record, lost>>
loopVars == <<names, cur, rest>>
worldVars == <<remote, dir, changes>>
boundVars == <<panicked, reloads>>
requestVars == <<sent, answer>>
workVars == <<todo, key>>
vars == <<providerVars, token, readerVars, pc, requestVars, workVars, loopVars, worldVars,
          boundVars, overlapped>>

\* A reader: "run" gathers; "told" has a token in quitChan; "closed" has taken
\* it and closed quitChan; "dead" is one whose service input failed to start,
\* which nobody receives for, and "deadtold" has a token all the same.
ReaderStates == {"none", "run", "told", "closed", "dead", "deadtold"}
NoAnswer == [version |-> NoVersion, config |-> {}]

Init ==
  /\ remote \in Versions
  /\ dir = LocalKeys
  /\ provider = [version |-> NoVersion, configMap |-> {}, cache |-> {}, add |-> {}, del |-> {}]
  /\ inputNames = {}
  /\ token = FALSE
  /\ record = [k \in Keys |-> "none"]
  /\ lost = [k \in Keys |-> 0]
  /\ pc = [a \in Actors |-> IF a = Main THEN "off" ELSE "none"]
  /\ sent = [a \in Actors |-> NoVersion] /\ answer = [a \in Actors |-> NoAnswer]
  /\ todo = [a \in Actors |-> {}] /\ key = [a \in Actors |-> NoKey]
  /\ names = {} /\ cur = "" /\ rest = {}
  /\ panicked = FALSE
  /\ reloads = 0 /\ changes = 0
  /\ overlapped = FALSE

Goto(a, place) == pc' = [pc EXCEPT ![a] = place]
At(a, place) == pc[a] = place

----------------------------------------------------------------------------
(* The world *)

ServerChanges ==
  /\ changes < MaxChanges
  /\ remote' \in Versions \ {remote}
  /\ changes' = changes + 1
  /\ UNCHANGED <<providerVars, token, readerVars, pc, requestVars, workVars, loopVars, dir, boundVars>>

DirChanges ==
  /\ changes < MaxChanges
  /\ dir' \in SUBSET LocalKeys \ {dir}
  /\ changes' = changes + 1
  /\ UNCHANGED <<providerVars, token, readerVars, pc, requestVars, workVars, loopVars, remote, boundVars>>

----------------------------------------------------------------------------
(* InputReader *)

\* The reader comes back to its select, takes the token and closes quitChan.
ReaderQuits(k) ==
  /\ record[k] = "told"
  /\ record' = [record EXCEPT ![k] = "closed"]
  /\ UNCHANGED <<providerVars, token, lost, pc, requestVars, workVars, loopVars, worldVars, boundVars>>

\* Stop: quitChan <- struct{}{}.  On a full channel the sender waits until the
\* reader takes the first token, or for ever if nobody will (the guard); on a
\* closed one it panics.
Send(k) ==
  /\ record[k] # "deadtold"
  /\ record' = [record EXCEPT ![k] =
                  IF @ = "run" THEN "told" ELSE IF @ = "dead" THEN "deadtold" ELSE @]
  /\ panicked' = (record[k] = "closed")

\* inputGo: initialise, spawn the reader, list it.  Add replaces whatever was
\* listed for the key.
inputGo(k) ==
  \/ /\ \E s \in {"run"} \cup (IF k \in Flaky THEN {"dead"} ELSE {}) :
          record' = [record EXCEPT ![k] = s]
     /\ lost' = [lost EXCEPT ![k] = @ + (IF record[k] = "run" THEN 1 ELSE 0)]
  \/ /\ k \in Flaky
     /\ UNCHANGED readerVars

\* RegisterInput, for one configuration.
Register(a, k) ==
  /\ pc[a] \in {"register", "adding"} /\ k \in todo[a]
  /\ todo' = [todo EXCEPT ![a] = @ \ {k}]
  /\ IF NameOf(k) \in Accepted THEN inputGo(k) ELSE UNCHANGED readerVars
  /\ UNCHANGED <<providerVars, token, pc, requestVars, key, loopVars, worldVars, boundVars>>

----------------------------------------------------------------------------
(* LoadConfig, by the main goroutine in Start or by a reloader *)

\* LocalProvider: the names in the directory, unless it cannot be listed.
LoadLocal ==
  /\ At(Main, "load") /\ cur = "local"
  /\ inputNames' \in {dir, inputNames}
  /\ Goto(Main, "names")
  /\ UNCHANGED <<provider, token, readerVars, requestVars, workVars, loopVars, worldVars, boundVars>>

\* HTTPProvider.doReq: the request carries the current version.  A reloader
\* sends it when its timer fires.
Request(a) ==
  /\ \/ a = Main /\ At(a, "load") /\ cur = "http"
     \/ At(a, "parked")
  /\ Goto(a, "asked") /\ sent' = [sent EXCEPT ![a] = provider.version]
  /\ UNCHANGED <<providerVars, token, readerVars, answer, workVars, loopVars, worldVars, boundVars>>

\* "if version is identical, server side can set Config to nil"
ServerAnswers(a) ==
  /\ At(a, "asked")
  /\ Goto(a, "answered") /\ sent' = [sent EXCEPT ![a] = NoVersion]
  /\ \E c \in {Configs[remote]} \cup (IF remote = sent[a] THEN {{}} ELSE {}) :
       answer' = [answer EXCEPT ![a] = [version |-> remote, config |-> c]]
  /\ UNCHANGED <<providerVars, token, readerVars, workVars, loopVars, worldVars, boundVars>>

AfterLoad(a, changed) ==
  IF a = Main THEN "names" ELSE IF changed THEN "add" ELSE "select"

\* The request is sent again until it succeeds.
LoadFailsRetries(a) ==
  /\ At(a, "asked")
  /\ Goto(a, IF a = Main THEN "load" ELSE "parked") /\ sent' = [sent EXCEPT ![a] = NoVersion]
  /\ UNCHANGED <<providerVars, token, readerVars, answer, workVars, loopVars, worldVars, boundVars>>

\* The request fails, or the answer has an empty version.
LoadFails(a) ==
  /\ At(a, "asked")
  /\ Goto(a, AfterLoad(a, FALSE)) /\ sent' = [sent EXCEPT ![a] = NoVersion]
  /\ UNCHANGED <<providerVars, token, readerVars, answer, workVars, loopVars, worldVars, boundVars>>

\* caculateDiff that leaves the cache as it was.
caculateDiffKeepsCache(config) ==
  [provider EXCEPT !.add = config \ provider.cache, !.del = provider.cache \ config]

\* caculateDiff against the cache, which the new configuration replaces.
caculateDiff(config) ==
  [provider EXCEPT !.add = config \ provider.cache, !.del = provider.cache \ config,
                   !.cache = config]

\* The answer is compared with the version there is by now.
LoadConfig(a) ==
  LET p == caculateDiff(answer[a].config)
      news == answer[a].version # provider.version
      changed == news /\ p.add \cup p.del # {}
  IN /\ At(a, "answered")
     /\ provider' = IF changed THEN [p EXCEPT !.configMap = answer[a].config,
                                              !.version = answer[a].version]
                    ELSE IF news THEN p ELSE provider
     /\ Goto(a, AfterLoad(a, changed)) /\ answer' = [answer EXCEPT ![a] = NoAnswer]
     /\ UNCHANGED <<inputNames, token, readerVars, sent, workVars, loopVars, worldVars, boundVars>>

----------------------------------------------------------------------------
(* MetricsAgent.Start *)

\* The loop over the providers.  Neither uses what the other has, so that any
\* order of the configuration gives the same.
NextProvider(left) ==
  IF left = {}
  THEN /\ Goto(Main, "started")
       /\ cur' = "" /\ rest' = {}
  ELSE /\ Goto(Main, "load")
       /\ cur' = (IF "local" \in left THEN "local" ELSE "http")
       /\ rest' = left \ {cur'}

Start ==
  /\ At(Main, "off")
  /\ NextProvider(Providers)
  /\ UNCHANGED <<providerVars, token, readerVars, requestVars, workVars, names, worldVars, boundVars>>

Configured == IF cur = "http" THEN provider.configMap ELSE inputNames
Readable == IF cur = "http" THEN Configured ELSE Configured \cap dir

\* StartReloader spawns a reloader (for "http", with the first free number), then
\* GetInputs.
GetInputs ==
  /\ At(Main, "names")
  /\ names' = {NameOf(k) : k \in Configured}
  /\ IF cur = "http"
     THEN \E r \in Reloaders :
            /\ At(r, "none") /\ \A q \in Reloaders : q < r => ~At(q, "none")
            /\ pc' = [pc EXCEPT ![Main] = "register", ![r] = "select"]
     ELSE Goto(Main, "register")
  /\ UNCHANGED <<providerVars, token, readerVars, requestVars, workVars, cur, rest, worldVars,
                 boundVars>>

\* The next name: FilterPass, then GetInputConfig as it is by now; a local
\* directory that is gone is an error, and the name is skipped.
GetInputConfig(n) ==
  /\ At(Main, "register") /\ todo[Main] = {} /\ n \in names
  /\ names' = names \ {n}
  /\ todo' = [todo EXCEPT ![Main] = IF n \in Accepted THEN Named(n, Readable) ELSE {}]
  /\ UNCHANGED <<providerVars, token, readerVars, pc, requestVars, key, cur, rest, worldVars,
                 boundVars>>

StartReturns ==
  /\ At(Main, "register") /\ todo[Main] = {} /\ names = {}
  /\ NextProvider(rest)
  /\ UNCHANGED <<providerVars, token, readerVars, requestVars, workVars, names, worldVars, boundVars>>

----------------------------------------------------------------------------
(* MetricsAgent.Stop *)

Listed == {k \in Keys : record[k] # "none"}

\* StopReloader that does not wait when a token is there already.
StopReloaderDrops ==
  \/ /\ \A r \in Reloaders : ~At(r, "parked")
     /\ token' = TRUE
     /\ Goto(Main, "stopping")
  \/ \E r \in Reloaders :
       /\ At(r, "parked")
       /\ pc' = [pc EXCEPT ![Main] = "stopping", ![r] = "none"]
       /\ UNCHANGED token

\* StopReloader: a reloader that is parked in its select takes the token at
\* once; otherwise the channel buffers it, and a second one waits.
StopReloader ==
  \/ /\ \A r \in Reloaders : ~At(r, "parked")
     /\ ~token /\ token' = TRUE
     /\ Goto(Main, "stopping")
  \/ \E r \in Reloaders :
       /\ At(r, "parked")
       /\ pc' = [pc EXCEPT ![Main] = "stopping", ![r] = "none"]
       /\ UNCHANGED token

\* The readers listed now will all be visited by the two range loops; those
\* listed later may be or not.
Stop ==
  /\ At(Main, "started") /\ reloads < MaxReloads
  /\ IF "http" \in Providers THEN StopReloader
     ELSE Goto(Main, "stopping") /\ UNCHANGED token
  /\ todo' = [todo EXCEPT ![Main] = Listed]
  /\ reloads' = reloads + 1
  /\ UNCHANGED <<providerVars, readerVars, requestVars, key, loopVars, worldVars, panicked>>

\* One turn of the loops: Stop of the reader, then Del.
StopReader(k) ==
  /\ At(Main, "stopping") /\ k \in Listed
  /\ Send(k)
  /\ Goto(Main, "unlist") /\ key' = [key EXCEPT ![Main] = k]
  /\ UNCHANGED <<providerVars, token, lost, requestVars, todo, loopVars, worldVars, reloads>>

Del(a, place) ==
  /\ record' = [record EXCEPT ![key[a]] = "none"]
  /\ lost' = [lost EXCEPT ![key[a]] = @ + (IF record[key[a]] = "run" THEN 1 ELSE 0)]
  /\ Goto(a, place)
  /\ todo' = [todo EXCEPT ![a] = @ \ {key[a]}] /\ key' = [key EXCEPT ![a] = NoKey]
  /\ UNCHANGED <<providerVars, token, requestVars, loopVars, worldVars, boundVars>>

StopDel == At(Main, "unlist") /\ Del(Main, "stopping")

StopReturns ==
  /\ At(Main, "stopping") /\ todo[Main] \cap Listed = {}
  /\ Goto(Main, "off") /\ todo' = [todo EXCEPT ![Main] = {}]
  /\ UNCHANGED <<providerVars, token, readerVars, requestVars, key, loopVars, worldVars, boundVars>>

----------------------------------------------------------------------------
(* The reloader *)

\* It comes to its select: a token that waits there ends it.
Select(r) ==
  /\ At(r, "select")
  /\ Goto(r, IF token THEN "none" ELSE "parked")
  /\ token' = FALSE
  /\ UNCHANGED <<providerVars, readerVars, requestVars, workVars, loopVars, worldVars, boundVars>>

\* The additions of the last caculateDiff, whoever made it.
Additions(r) ==
  /\ At(r, "add")
  /\ Goto(r, "adding") /\ todo' = [todo EXCEPT ![r] = provider.add]
  /\ UNCHANGED <<providerVars, token, readerVars, requestVars, key, loopVars, worldVars, boundVars>>

Deletions(r) ==
  /\ At(r, "adding") /\ todo[r] = {}
  /\ Goto(r, "deleting") /\ todo' = [todo EXCEPT ![r] = provider.del]
  /\ UNCHANGED <<providerVars, token, readerVars, requestVars, key, loopVars, worldVars, boundVars>>

\* DeregisterInput that stops every reader of the name, whatever its checksum.
DeregisterInputByName(r, k) ==
  /\ At(r, "deleting") /\ k \in todo[r]
  /\ record' = [x \in Keys |-> IF NameOf(x) = NameOf(k) /\ record[x] = "run"
                               THEN "told" ELSE record[x]]
  /\ Goto(r, "unlist") /\ key' = [key EXCEPT ![r] = k]
  /\ UNCHANGED <<providerVars, token, lost, requestVars, todo, loopVars, worldVars, boundVars>>

\* DeregisterInput: Stop of the reader that is listed, then Del.
DeregisterInput(r, k) ==
  /\ At(r, "deleting") /\ k \in todo[r]
  /\ IF record[k] = "none" THEN UNCHANGED <<record, panicked>> ELSE Send(k)
  /\ Goto(r, "unlist") /\ key' = [key EXCEPT ![r] = k]
  /\ UNCHANGED <<providerVars, token, lost, requestVars, todo, loopVars, worldVars, reloads>>

DeregisterDel(r) == At(r, "unlist") /\ Del(r, "deleting")

PassEnds(r) ==
  /\ At(r, "deleting") /\ todo[r] = {}
  /\ Goto(r, "select")
  /\ UNCHANGED <<providerVars, token, readerVars, requestVars, workVars, loopVars, worldVars, boundVars>>

\* Stop ranges over the maps without the lock that Add and Del take: the
\* runtime may end the process.
MapFault ==
  /\ pc[Main] \in {"stopping", "unlist"}
  /\ \E r \in Reloaders : At(r, "unlist") \/ (At(r, "adding") /\ todo[r] # {})
  /\ panicked' = TRUE
  /\ UNCHANGED <<providerVars, token, readerVars, pc, requestVars, workVars, loopVars, worldVars, reloads>>

----------------------------------------------------------------------------
(* The specification *)

InPass(r) == pc[r] \in {"asked", "answered", "add", "adding", "deleting", "unlist"}
Overlap == ~At(Main, "started") /\ \E r \in Reloaders : InPass(r)

MainNext ==
  \/ Start \/ LoadLocal \/ GetInputs \/ StartReturns \/ Stop \/ StopDel \/ StopReturns
  \/ \E k \in Keys : StopReader(k)
  \/ \E n \in InputNames : GetInputConfig(n)
ReloaderNext(r) ==
  \/ Select(r) \/ Additions(r) \/ Deletions(r) \/ DeregisterDel(r) \/ PassEnds(r)
  \/ \E k \in Keys : DeregisterInput(r, k)
AnyNext(a) ==
  \/ Request(a) \/ ServerAnswers(a) \/ LoadFails(a) \/ LoadConfig(a)
  \/ \E k \in Keys : Register(a, k)

\* A step of the process, and what it tells of overlaps.
Step(action) ==
  /\ ~panicked
  /\ action
  /\ overlapped' = (overlapped \/ Overlap')

Next ==
  Step(\/ ServerChanges \/ DirChanges \/ MapFault
       \/ MainNext
       \/ \E r \in Reloaders : ReloaderNext(r)
       \/ \E a \in Actors : AnyNext(a)
       \/ \E k \in Keys : ReaderQuits(k))

Spec == Init /\ [][Next]_vars

\* Goroutines that can run do, timers fire, and the server is not for ever out
\* of reach.
Fairness ==
  /\ WF_vars(Step(MainNext \/ AnyNext(Main)))
  /\ \A r \in Reloaders :
       /\ WF_vars(Step(ReloaderNext(r) \/ AnyNext(r)))
       /\ SF_vars(Step(ServerAnswers(r)))
LiveSpec == Spec /\ Fairness

----------------------------------------------------------------------------
(* Properties *)

MainPc == {"off", "load", "asked", "answered", "names", "register", "started", "stopping",
           "unlist"}
ReloaderPc == {"none", "select", "parked", "asked", "answered", "add", "adding", "deleting",
               "unlist"}
\* Every variable has its type, and each goroutine is at one of its own places.
TypeOK ==
  /\ remote \in Versions /\ dir \in SUBSET LocalKeys
  /\ provider \in [version : Versions \cup {NoVersion}, configMap : SUBSET HttpKeys,
                   cache : SUBSET HttpKeys, add : SUBSET HttpKeys, del : SUBSET HttpKeys]
  /\ inputNames \in SUBSET LocalKeys
  /\ token \in BOOLEAN /\ panicked \in BOOLEAN /\ overlapped \in BOOLEAN
  /\ record \in [Keys -> ReaderStates]
  /\ lost \in [Keys -> Nat]
  /\ pc \in [Actors -> MainPc \cup ReloaderPc]
  /\ pc[Main] \in MainPc /\ \A r \in Reloaders : pc[r] \in ReloaderPc
  /\ sent \in [Actors -> Versions \cup {NoVersion}]
  /\ answer \in [Actors -> [version : Versions \cup {NoVersion}, config : SUBSET HttpKeys]]
  /\ todo \in [Actors -> SUBSET Keys] /\ key \in [Actors -> Keys \cup {NoKey}]
  /\ names \in SUBSET InputNames
  /\ cur \in Providers \cup {""} /\ rest \in SUBSET Providers
  /\ reloads \in 0..MaxReloads /\ changes \in 0..MaxChanges

\* The configuration in force, and the readers that gather.
Target == IF pc[Main] \in {"off", "stopping", "unlist"} THEN {}
          ELSE provider.configMap \cup inputNames
Collecting == [k \in Keys |-> lost[k] + (IF record[k] = "run" THEN 1 ELSE 0)]

Abstract == INSTANCE InputCollection
              WITH target <- Target, collecting <- Collecting, orderly <- ~overlapped

\* The agent implements the abstract collection: until a pass of the reloader
\* meets a Start or a Stop, a reader is started only for a configured input that
\* has none, and told to stop only when its input is no longer configured.
ImplementsCollection == Abstract!CollectionSpec

\* Whatever meets whatever, there is one reloader for each Start that reached
\* StartReloader, less one for each token taken: a started agent has one more
\* than the tokens that will end one.  Reloads neither pile reloaders up nor
\* leave none.
Alive == {r \in Reloaders : ~At(r, "none")}
Loading == pc[Main] \in {"load", "asked", "answered", "names"}
Spawned == /\ "http" \in Providers
           /\ \/ At(Main, "started")
              \/ At(Main, "register") /\ "http" \notin rest
              \/ Loading /\ "http" \notin rest \cup {cur}
OneReloader ==
  /\ ~Spawned /\ ~token => Alive = {}
  /\ (Spawned /\ ~token) \/ (~Spawned /\ token) => \E r \in Reloaders : Alive = {r}
  /\ Spawned /\ token => \E q, r \in Reloaders : q # r /\ Alive = {q, r}

\* Until a pass meets a Start or a Stop, what the agent collects becomes, and
\* then remains, what the server configures, apart from inputs that cannot be
\* initialised.
Wanted == {k \in Configs[remote] : NameOf(k) \in Accepted} \ Flaky
Collected == {k \in HttpKeys : Collecting[k] > 0} \ Flaky
ConfigIsCollected == <>overlapped \/ <>[](Collected = Wanted)

\* A SIGHUP ends with the agent started again, even when a pass is under way,
\* unless the process panics or Stop waits for a reader that nobody reads for.
ReloadReturns ==
  ~At(Main, "started") ~> (At(Main, "started") \/ panicked \/ \E k \in Keys : record[k] = "deadtold")

\* "If input config is changed, the provider will reload the input": when the
\* agent is started and no pass is under way, no reader gathers for an input
\* that its configuration does not have, and none has two readers.
ReadersFollowConfig ==
  At(Main, "started") /\ ~panicked /\ (\A r \in Reloaders : ~InPass(r))
    => \A k \in Keys : Collecting[k] <= (IF k \in Target THEN 1 ELSE 0)

----------------------------------------------------------------------------
(* What makes them inductive *)

Running == {k \in Keys : record[k] = "run"}
KeysOf(p) == IF p = "http" THEN HttpKeys ELSE LocalKeys

\* What Start may still register.
Pending == {k \in Keys :
              \/ \E p \in rest : k \in KeysOf(p)
              \/ Loading /\ k \in KeysOf(cur)
              \/ /\ At(Main, "register")
                 /\ k \in todo[Main] \/ (k \in KeysOf(cur) /\ NameOf(k) \in names)}

\* The differences are those of the configuration in force, and Start is at one
\* provider of those it has not finished.
ProviderInv ==
  /\ provider.cache = provider.configMap
  /\ provider.add \subseteq provider.configMap
  /\ provider.del \cap provider.configMap = {}
  /\ Loading \/ At(Main, "register") => cur \in Providers \ rest
  /\ pc[Main] \in {"asked", "answered"} => cur = "http"
  /\ Loading \/ pc[Main] \in {"off", "started"} => todo[Main] = {}
  /\ \A a \in Actors : At(a, "unlist") => key[a] \in Keys

\* In an orderly history: while the main goroutine is at work, no pass is under
\* way; Stop knows what runs, and Start registers only what does not.
MainInv ==
  /\ \A r \in Reloaders : InPass(r) => At(Main, "started")
  /\ token => \A r \in Reloaders : At(r, "none") \/ At(r, "select")
  /\ \A k \in Keys : lost[k] = 0
  /\ At(Main, "off") => Running = {}
  /\ At(Main, "stopping") => Running \subseteq todo[Main]
  /\ At(Main, "unlist") => Running \subseteq todo[Main] \ {key[Main]}
  /\ Loading \/ At(Main, "register") => Running \subseteq Target \ Pending
  /\ At(Main, "register") => /\ todo[Main] \subseteq Target \cap KeysOf(cur)
                            /\ \A k \in todo[Main] : NameOf(k) \notin names

\* ... and a pass registers only what does not run, and deregisters only what is
\* no longer configured; when it is over, everything that runs is configured.
Applying(r) == pc[r] \in {"add", "adding", "deleting", "unlist"}
PassInv ==
  /\ At(Main, "started") /\ (\A r \in Reloaders : ~Applying(r)) => Running \subseteq Target
  /\ \A r \in Reloaders :
       /\ At(r, "add") => Running \subseteq (Target \cup provider.del) \ provider.add
       /\ At(r, "adding") => /\ Running \subseteq (Target \cup provider.del) \ todo[r]
                            /\ todo[r] \subseteq provider.configMap
       /\ At(r, "deleting") => Running \subseteq Target \cup todo[r]
       /\ At(r, "unlist") => Running \subseteq Target \cup (todo[r] \ {key[r]})
       /\ At(r, "deleting") \/ At(r, "unlist") =>
            todo[r] \subseteq HttpKeys \ provider.configMap
       /\ At(r, "unlist") => key[r] \in todo[r]

AgentInv == TypeOK /\ OneReloader /\ ProviderInv /\ (~overlapped => MainInv /\ PassInv)
=============================================================================
