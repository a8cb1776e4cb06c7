-------------------------- MODULE MetricsAgentProofs --------------------------
(* Proofs about MetricsAgent, for every set of versions and configurations,   *)
(* both providers or one, and any number of reloads: the types, the number of *)
(* reloaders, and that the agent implements InputCollection.                  *)
EXTENDS MetricsAgent, TLAPS

\* The provers, in the order in which they are tried.
USE ZenonT(2), SMTT(30), ZenonT(60)

-----------------------------------------------------------------------------
(* Types *)

\* The constants: who the actors are, and which keys there are.
LEMMA ConstantFacts ==
  /\ Main \in Actors /\ Main \notin Reloaders /\ Reloaders \subseteq Actors
  /\ \A a \in Actors : a = Main \/ a \in Reloaders
  /\ \A r \in Reloaders : r # Main
  /\ HttpKeys \subseteq Keys /\ LocalKeys \subseteq Keys
  /\ \A v \in Versions : Configs[v] \in SUBSET HttpKeys
<1>1. Main \notin Reloaders
  BY AgentAssumption DEF Main, Reloaders
<1> QED
  BY <1>1, AgentAssumption DEF Actors, Keys, HttpKeys

\* At first the agent is off and every list is empty.
LEMMA InitType == Init => TypeOK
<1> SUFFICES ASSUME Init PROVE TypeOK
  OBVIOUS
<1>1. MaxReloads \in Nat /\ MaxChanges \in Nat
  BY AgentAssumption
<1>2. remote \in Versions /\ dir = LocalKeys /\ reloads = 0 /\ changes = 0
  BY DEF Init
<1>3. /\ remote \in Versions /\ dir \in SUBSET LocalKeys
      /\ reloads \in 0..MaxReloads /\ changes \in 0..MaxChanges
  BY <1>1, <1>2
<1>4. /\ pc \in [Actors -> MainPc \cup ReloaderPc]
      /\ pc[Main] \in MainPc /\ \A r \in Reloaders : pc[r] \in ReloaderPc
  BY ConstantFacts DEF Init, MainPc, ReloaderPc
<1>5. /\ sent \in [Actors -> Versions \cup {NoVersion}]
      /\ answer \in [Actors -> [version : Versions \cup {NoVersion}, config : SUBSET HttpKeys]]
      /\ todo \in [Actors -> SUBSET Keys] /\ key \in [Actors -> Keys \cup {NoKey}]
  BY DEF Init, NoAnswer
<1>6. record \in [Keys -> ReaderStates] /\ lost \in [Keys -> Nat]
  BY DEF Init, ReaderStates
<1>7. /\ provider \in [version : Versions \cup {NoVersion}, configMap : SUBSET HttpKeys,
                       cache : SUBSET HttpKeys, add : SUBSET HttpKeys, del : SUBSET HttpKeys]
      /\ inputNames \in SUBSET LocalKeys
      /\ token \in BOOLEAN /\ panicked \in BOOLEAN /\ overlapped \in BOOLEAN
      /\ names \in SUBSET InputNames
      /\ cur \in Providers \cup {""} /\ rest \in SUBSET Providers
  BY DEF Init
<1> QED
  BY <1>3, <1>4, <1>5, <1>6, <1>7 DEF TypeOK

\* A step keeps every place of a goroutine one of its own.
LEMMA TypePc ==
  ASSUME TypeOK, Next
  PROVE  /\ pc' \in [Actors -> MainPc \cup ReloaderPc]
         /\ pc'[Main] \in MainPc /\ \A r \in Reloaders : pc'[r] \in ReloaderPc
<1> DEFINE Good == /\ pc' \in [Actors -> MainPc \cup ReloaderPc]
                   /\ pc'[Main] \in MainPc /\ \A r \in Reloaders : pc'[r] \in ReloaderPc
<1> USE ConstantFacts
<1>0. /\ pc \in [Actors -> MainPc \cup ReloaderPc]
      /\ pc[Main] \in MainPc /\ \A r \in Reloaders : pc[r] \in ReloaderPc
  BY DEF TypeOK
<1>1. CASE ServerChanges \/ DirChanges \/ MapFault \/ \E k \in Keys : ReaderQuits(k)
  BY <1>0, <1>1 DEF ServerChanges, DirChanges, MapFault, ReaderQuits
<1>2. CASE MainNext
  <2>1. CASE Start \/ StartReturns
    BY <1>0, <2>1 DEF Start, StartReturns, NextProvider, Goto, MainPc, ReloaderPc
  <2>2. CASE LoadLocal \/ StopReturns \/ (\E k \in Keys : StopReader(k)) \/ StopDel
    BY <1>0, <2>2 DEF LoadLocal, StopReturns, StopReader, StopDel, Del, Goto, MainPc, ReloaderPc
  <2>3. CASE GetInputs
    BY <1>0, <2>3 DEF GetInputs, Goto, MainPc, ReloaderPc
  <2>4. CASE \E n \in InputNames : GetInputConfig(n)
    BY <1>0, <2>4 DEF GetInputConfig
  <2>5. CASE Stop
    BY <1>0, <2>5 DEF Stop, StopReloader, Goto, MainPc, ReloaderPc
  <2> QED
    BY <1>2, <2>1, <2>2, <2>3, <2>4, <2>5 DEF MainNext
<1>3. CASE \E r \in Reloaders : ReloaderNext(r)
  BY <1>0, <1>3 DEF ReloaderNext, Select, Additions, Deletions, DeregisterDel, Del, PassEnds,
     DeregisterInput, Goto, ReloaderPc
<1>4. CASE \E a \in Actors : AnyNext(a)
  BY <1>0, <1>4 DEF AnyNext, Request, ServerAnswers, LoadFails, LoadConfig, Register, AfterLoad,
     Goto, At, MainPc, ReloaderPc
<1> QED
  BY <1>1, <1>2, <1>3, <1>4 DEF Next, Step

\* A step keeps what the main goroutine and the reloaders remember in its type.
LEMMA TypeWork ==
  ASSUME TypeOK, Next
  PROVE  /\ sent' \in [Actors -> Versions \cup {NoVersion}]
         /\ answer' \in [Actors -> [version : Versions \cup {NoVersion}, config : SUBSET HttpKeys]]
         /\ todo' \in [Actors -> SUBSET Keys] /\ key' \in [Actors -> Keys \cup {NoKey}]
<1> USE ConstantFacts
<1>0. /\ sent \in [Actors -> Versions \cup {NoVersion}]
      /\ answer \in [Actors -> [version : Versions \cup {NoVersion}, config : SUBSET HttpKeys]]
      /\ todo \in [Actors -> SUBSET Keys] /\ key \in [Actors -> Keys \cup {NoKey}]
      /\ remote \in Versions
      /\ provider.version \in Versions \cup {NoVersion} /\ provider.configMap \subseteq HttpKeys
      /\ provider.add \subseteq HttpKeys /\ provider.del \subseteq HttpKeys
      /\ inputNames \subseteq LocalKeys
  BY DEF TypeOK
<1>1. CASE ServerChanges \/ DirChanges \/ MapFault \/ \E k \in Keys : ReaderQuits(k)
  BY <1>0, <1>1 DEF ServerChanges, DirChanges, MapFault, ReaderQuits, requestVars, workVars
<1>2. CASE MainNext
  <2>1. CASE Start \/ StartReturns \/ LoadLocal \/ GetInputs
    BY <1>0, <2>1 DEF Start, StartReturns, LoadLocal, GetInputs, requestVars, workVars
  <2>2. CASE StopReturns \/ (\E k \in Keys : StopReader(k)) \/ StopDel
    BY <1>0, <2>2 DEF StopReturns, StopReader, StopDel, Del, requestVars
  <2>3. CASE \E n \in InputNames : GetInputConfig(n)
    BY <1>0, <2>3 DEF GetInputConfig, Named, Readable, Configured, requestVars
  <2>4. CASE Stop
    BY <1>0, <2>4 DEF Stop, Listed, requestVars
  <2> QED
    BY <1>2, <2>1, <2>2, <2>3, <2>4 DEF MainNext
<1>3. CASE \E r \in Reloaders : ReloaderNext(r)
  BY <1>0, <1>3 DEF ReloaderNext, Select, Additions, Deletions, DeregisterDel, Del, PassEnds,
     DeregisterInput, requestVars, workVars
<1>4. CASE \E a \in Actors : AnyNext(a)
  <2>1. NoAnswer \in [version : Versions \cup {NoVersion}, config : SUBSET HttpKeys]
    BY DEF NoAnswer
  <2>2. ASSUME NEW c \in SUBSET HttpKeys
        PROVE  [version |-> remote, config |-> c]
                 \in [version : Versions \cup {NoVersion}, config : SUBSET HttpKeys]
    BY <1>0
  <2>3. CASE \E a \in Actors : ServerAnswers(a)
    <3>1. PICK a \in Actors : ServerAnswers(a)
      BY <2>3
    <3>2. PICK c \in {Configs[remote]} \cup (IF remote = sent[a] THEN {{}} ELSE {}) :
            answer' = [answer EXCEPT ![a] = [version |-> remote, config |-> c]]
      BY <3>1 DEF ServerAnswers
    <3>3. c \in SUBSET HttpKeys
      BY <1>0, <3>2
    <3>4. sent' = [sent EXCEPT ![a] = NoVersion] /\ todo' = todo /\ key' = key
      BY <3>1 DEF ServerAnswers, workVars
    <3>5. answer' \in [Actors -> [version : Versions \cup {NoVersion}, config : SUBSET HttpKeys]]
      <4> DEFINE A == [version |-> remote, config |-> c]
      <4>1. A \in [version : Versions \cup {NoVersion}, config : SUBSET HttpKeys]
        BY <2>2, <3>3
      <4> HIDE DEF A
      <4> QED
        BY <1>0, <3>2, <4>1 DEF A
    <3> QED
      BY <1>0, <3>4, <3>5
  <2>4. CASE \E a \in Actors : Request(a) \/ LoadFails(a)
    BY <1>0, <2>4 DEF Request, LoadFails, workVars
  <2>6. CASE \E a \in Actors : \E k \in Keys : Register(a, k)
    BY <1>0, <2>6 DEF Register, requestVars
  <2>5. CASE \E a \in Actors : LoadConfig(a)
    BY <1>0, <2>1, <2>5 DEF LoadConfig, workVars
  <2> QED
    BY <1>4, <2>3, <2>4, <2>5, <2>6 DEF AnyNext
<1> QED
  BY <1>1, <1>2, <1>3, <1>4 DEF Next, Step

\* A step keeps the readers' states, and the number of readers forgotten.
LEMMA TypeReaders ==
  ASSUME TypeOK, Next
  PROVE  record' \in [Keys -> ReaderStates] /\ lost' \in [Keys -> Nat] /\ panicked' \in BOOLEAN
<1>0. record \in [Keys -> ReaderStates] /\ lost \in [Keys -> Nat] /\ panicked \in BOOLEAN
  BY DEF TypeOK
<1>1. CASE ServerChanges \/ DirChanges \/ MapFault \/ \E k \in Keys : ReaderQuits(k)
  BY <1>0, <1>1 DEF ServerChanges, DirChanges, MapFault, ReaderQuits, readerVars, boundVars,
     ReaderStates
<1>2. ASSUME NEW a, Del(a, "stopping") \/ Del(a, "deleting")
      PROVE  record' \in [Keys -> ReaderStates] /\ lost' \in [Keys -> Nat]
             /\ panicked' \in BOOLEAN
  BY <1>0, <1>2 DEF Del, ReaderStates, boundVars
<1>3. ASSUME NEW k \in Keys, Send(k)
      PROVE  record' \in [Keys -> ReaderStates] /\ panicked' \in BOOLEAN
  BY <1>0, <1>3 DEF Send, ReaderStates
<1>4. CASE MainNext
  <2>1. CASE Start \/ StartReturns \/ LoadLocal \/ GetInputs \/ Stop \/ StopReturns
    BY <1>0, <2>1 DEF Start, StartReturns, LoadLocal, GetInputs, Stop, StopReturns, readerVars,
       boundVars
  <2>2. CASE \E n \in InputNames : GetInputConfig(n)
    BY <1>0, <2>2 DEF GetInputConfig, readerVars, boundVars
  <2>3. CASE \E k \in Keys : StopReader(k)
    BY <1>0, <1>3, <2>3 DEF StopReader
  <2>4. CASE StopDel
    BY <1>2, <2>4 DEF StopDel
  <2> QED
    BY <1>4, <2>1, <2>2, <2>3, <2>4 DEF MainNext
<1>5. CASE \E r \in Reloaders : ReloaderNext(r)
  <2>1. CASE \E r \in Reloaders : Select(r) \/ Additions(r) \/ Deletions(r) \/ PassEnds(r)
    BY <1>0, <2>1 DEF Select, Additions, Deletions, PassEnds, readerVars, boundVars
  <2>2. CASE \E r \in Reloaders : DeregisterDel(r)
    BY <1>2, <2>2 DEF DeregisterDel
  <2>3. CASE \E r \in Reloaders : \E k \in Keys : DeregisterInput(r, k)
    BY <1>0, <1>3, <2>3 DEF DeregisterInput
  <2> QED
    BY <1>5, <2>1, <2>2, <2>3 DEF ReloaderNext
<1>6. CASE \E a \in Actors : AnyNext(a)
  <2>1. CASE \E a \in Actors : Request(a) \/ ServerAnswers(a) \/ LoadFails(a) \/ LoadConfig(a)
    BY <1>0, <2>1 DEF Request, ServerAnswers, LoadFails, LoadConfig, readerVars, boundVars
  <2>2. CASE \E a \in Actors : \E k \in Keys : Register(a, k)
    BY <1>0, <2>2 DEF Register, inputGo, readerVars, boundVars, ReaderStates
  <2> QED
    BY <1>6, <2>1, <2>2 DEF AnyNext
<1> QED
  BY <1>1, <1>4, <1>5, <1>6 DEF Next, Step

\* What a step makes of the provider: LoadConfig changes it, nothing else does.
LEMMA ProviderStep ==
  ASSUME Next
  PROVE  UNCHANGED provider \/ \E a \in Actors : LoadConfig(a)
<1>1. CASE ServerChanges \/ DirChanges \/ MapFault \/ \E k \in Keys : ReaderQuits(k)
  BY <1>1 DEF ServerChanges, DirChanges, MapFault, ReaderQuits, providerVars
<1>2. CASE MainNext
  BY <1>2 DEF MainNext, Start, LoadLocal, GetInputs, StartReturns, Stop, StopDel, Del, StopReturns,
     StopReader, GetInputConfig, providerVars
<1>3. CASE \E r \in Reloaders : ReloaderNext(r)
  BY <1>3 DEF ReloaderNext, Select, Additions, Deletions, DeregisterDel, Del, PassEnds,
     DeregisterInput, providerVars
<1>4. CASE \E a \in Actors : AnyNext(a)
  BY <1>4 DEF AnyNext, Request, ServerAnswers, LoadFails, Register, providerVars
<1> QED
  BY <1>1, <1>2, <1>3, <1>4 DEF Next, Step

\* caculateDiff of the configuration of an answer, and what LoadConfig makes of it.
LEMMA LoadConfigType ==
  ASSUME TypeOK, NEW a \in Actors, LoadConfig(a)
  PROVE  /\ provider' \in [version : Versions \cup {NoVersion}, configMap : SUBSET HttpKeys,
                           cache : SUBSET HttpKeys, add : SUBSET HttpKeys, del : SUBSET HttpKeys]
         /\ \/ provider' = provider
            \/ /\ provider'.cache = answer[a].config
               /\ provider'.add = answer[a].config \ provider.cache
               /\ provider'.del = provider.cache \ answer[a].config
               /\ \/ /\ provider'.add \cup provider'.del = {}
                     /\ provider'.configMap = provider.configMap
                  \/ provider'.configMap = answer[a].config
<1> DEFINE P == [version : Versions \cup {NoVersion}, configMap : SUBSET HttpKeys,
                 cache : SUBSET HttpKeys, add : SUBSET HttpKeys, del : SUBSET HttpKeys]
           c == answer[a].config
           v == answer[a].version
           p == caculateDiff(c)
           q == [p EXCEPT !.configMap = c, !.version = v]
<1>1. provider \in P /\ c \in SUBSET HttpKeys /\ v \in Versions \cup {NoVersion}
  BY DEF TypeOK
<1>2. /\ p \in P /\ p.cache = c /\ p.add = c \ provider.cache /\ p.del = provider.cache \ c
      /\ p.configMap = provider.configMap
  BY <1>1 DEF caculateDiff
<1>3. /\ q \in P /\ q.cache = c /\ q.add = p.add /\ q.del = p.del /\ q.configMap = c
  <2> HIDE DEF p, c, v
  <2> QED
    BY <1>1, <1>2
<1>4. \/ provider' = q
      \/ provider' = p /\ p.add \cup p.del = {}
      \/ provider' = provider
  <2>1. answer[a].version # provider.version \/ provider' = provider
    BY DEF LoadConfig
  <2>2. p.add \cup p.del # {} /\ answer[a].version # provider.version => provider' = q
    BY DEF LoadConfig
  <2>3. p.add \cup p.del = {} /\ answer[a].version # provider.version => provider' = p
    BY DEF LoadConfig
  <2> QED
    BY <2>1, <2>2, <2>3
<1> HIDE DEF p, q
<1> QED
  BY <1>1, <1>2, <1>3, <1>4

\* The world, the directory's list and the loop of Start keep their types.
LEMMA TypeLoop ==
  ASSUME TypeOK, Next
  PROVE  /\ remote' \in Versions /\ dir' \in SUBSET LocalKeys
         /\ inputNames' \in SUBSET LocalKeys
         /\ names' \in SUBSET InputNames
         /\ cur' \in Providers \cup {""} /\ rest' \in SUBSET Providers
<1>0. /\ remote \in Versions /\ dir \in SUBSET LocalKeys
      /\ inputNames \in SUBSET LocalKeys
      /\ names \in SUBSET InputNames
      /\ cur \in Providers \cup {""} /\ rest \in SUBSET Providers
      /\ provider.configMap \subseteq Keys /\ inputNames \subseteq Keys
  BY ConstantFacts DEF TypeOK
<1>1. CASE ServerChanges \/ DirChanges \/ MapFault \/ \E k \in Keys : ReaderQuits(k)
  BY <1>0, <1>1 DEF ServerChanges, DirChanges, MapFault, ReaderQuits, providerVars, loopVars,
     worldVars
<1>2. CASE MainNext
  <2>1. ASSUME NEW left \in SUBSET Providers, NextProvider(left)
        PROVE  cur' \in Providers \cup {""} /\ rest' \in SUBSET Providers
    <3>1. Providers \subseteq {"local", "http"}
      BY AgentAssumption
    <3> QED
      BY <3>1, <2>1 DEF NextProvider
  <2>2. CASE Start \/ StartReturns
    BY <1>0, <2>1, <2>2 DEF Start, StartReturns, providerVars, worldVars
  <2>3. CASE LoadLocal
    BY <1>0, <2>3 DEF LoadLocal, loopVars, worldVars
  <2>4. CASE GetInputs
    BY <1>0, <2>4 DEF GetInputs, Configured, InputNames, providerVars, worldVars
  <2>5. CASE \E n \in InputNames : GetInputConfig(n)
    BY <1>0, <2>5 DEF GetInputConfig, providerVars, worldVars
  <2>6. CASE Stop \/ StopDel \/ StopReturns \/ \E k \in Keys : StopReader(k)
    BY <1>0, <2>6 DEF Stop, StopDel, Del, StopReturns, StopReader, providerVars, worldVars, loopVars
  <2> QED
    BY <1>2, <2>2, <2>3, <2>4, <2>5, <2>6 DEF MainNext
<1>3. CASE \E r \in Reloaders : ReloaderNext(r)
  BY <1>0, <1>3 DEF ReloaderNext, Select, Additions, Deletions, DeregisterDel, Del, PassEnds,
     DeregisterInput, providerVars, loopVars, worldVars
<1>4. CASE \E a \in Actors : AnyNext(a)
  BY <1>0, <1>4 DEF AnyNext, Request, ServerAnswers, LoadFails, LoadConfig, Register, providerVars,
     loopVars, worldVars
<1> QED
  BY <1>1, <1>2, <1>3, <1>4 DEF Next, Step

\* The counters stay within their bounds.
LEMMA TypeCounters ==
  ASSUME TypeOK, Next
  PROVE  reloads' \in 0..MaxReloads /\ changes' \in 0..MaxChanges
<1>0. reloads \in 0..MaxReloads /\ changes \in 0..MaxChanges
  BY DEF TypeOK
<1>1. MaxReloads \in Nat /\ MaxChanges \in Nat
  BY AgentAssumption
<1>2. /\ reloads' = reloads \/ (reloads < MaxReloads /\ reloads' = reloads + 1)
      /\ changes' = changes \/ (changes < MaxChanges /\ changes' = changes + 1)
  <2>1. CASE ServerChanges \/ DirChanges \/ MapFault \/ \E k \in Keys : ReaderQuits(k)
    BY <2>1 DEF ServerChanges, DirChanges, MapFault, ReaderQuits, worldVars, boundVars
  <2>2. CASE MainNext
    BY <2>2 DEF MainNext, Start, LoadLocal, GetInputs, StartReturns, Stop, StopDel, Del,
       StopReturns, StopReader, GetInputConfig, worldVars, boundVars
  <2>3. CASE \E r \in Reloaders : ReloaderNext(r)
    BY <2>3 DEF ReloaderNext, Select, Additions, Deletions, DeregisterDel, Del, PassEnds,
       DeregisterInput, worldVars, boundVars
  <2>4. CASE \E a \in Actors : AnyNext(a)
    BY <2>4 DEF AnyNext, Request, ServerAnswers, LoadFails, LoadConfig, Register, worldVars,
       boundVars
  <2> QED
    BY <2>1, <2>2, <2>3, <2>4 DEF Next, Step
<1> QED
  BY <1>0, <1>1, <1>2

\* The flags stay Boolean.
LEMMA TypeFlags ==
  ASSUME TypeOK, Next
  PROVE  token' \in BOOLEAN /\ overlapped' \in BOOLEAN
<1>1. token \in BOOLEAN
  BY DEF TypeOK
<1>2. token' = token \/ token' = TRUE \/ token' = FALSE
  <2>1. CASE ServerChanges \/ DirChanges \/ MapFault \/ \E k \in Keys : ReaderQuits(k)
    BY <2>1 DEF ServerChanges, DirChanges, MapFault, ReaderQuits
  <2>2. CASE MainNext
    BY <2>2 DEF MainNext, Start, LoadLocal, GetInputs, StartReturns, Stop, StopReloader, StopDel,
       Del, StopReturns, StopReader, GetInputConfig
  <2>3. CASE \E r \in Reloaders : ReloaderNext(r)
    BY <2>3 DEF ReloaderNext, Select, Additions, Deletions, DeregisterDel, Del, PassEnds,
       DeregisterInput
  <2>4. CASE \E a \in Actors : AnyNext(a)
    BY <2>4 DEF AnyNext, Request, ServerAnswers, LoadFails, LoadConfig, Register
  <2> QED
    BY <2>1, <2>2, <2>3, <2>4 DEF Next, Step
<1>3. overlapped' \in BOOLEAN
  <2>1. overlapped' = (overlapped \/ Overlap')
    BY DEF Next, Step
  <2> QED
    BY <2>1
<1> QED
  BY <1>1, <1>2, <1>3

\* Every step keeps the types.
LEMMA NextType == TypeOK /\ [Next]_vars => TypeOK'
<1> SUFFICES ASSUME TypeOK, [Next]_vars PROVE TypeOK'
  OBVIOUS
<1>1. CASE Next
  <2>1. provider' \in [version : Versions \cup {NoVersion}, configMap : SUBSET HttpKeys,
                       cache : SUBSET HttpKeys, add : SUBSET HttpKeys, del : SUBSET HttpKeys]
    <3>1. CASE UNCHANGED provider
      BY <3>1 DEF TypeOK
    <3>2. CASE \E a \in Actors : LoadConfig(a)
      BY <3>2, LoadConfigType
    <3> QED
      BY <1>1, <3>1, <3>2, ProviderStep
  <2> QED
    BY <1>1, <2>1, TypePc, TypeWork, TypeReaders, TypeLoop, TypeCounters, TypeFlags
       DEF TypeOK
<1>2. CASE UNCHANGED vars
  BY <1>2 DEF TypeOK, vars, providerVars, readerVars, requestVars, workVars, loopVars, worldVars,
     boundVars
<1> QED
  BY <1>1, <1>2

\* The types hold in every behaviour: whatever pass meets whatever Start or Stop,
\* each goroutine is at a place of its own and every list holds known inputs.
THEOREM AgentTypes == Spec => []TypeOK
BY InitType, NextType, PTL DEF Spec

-----------------------------------------------------------------------------
(* The provider and the loop of Start *)

\* The provider has loaded nothing at first.
LEMMA InitProvider == Init => ProviderInv
<1> SUFFICES ASSUME Init PROVE ProviderInv
  OBVIOUS
<1>1. pc[Main] = "off" /\ \A a \in Actors : pc[a] # "unlist"
  BY ConstantFacts DEF Init
<1>2. provider.cache = {} /\ provider.configMap = {} /\ provider.add = {} /\ provider.del = {}
  BY DEF Init
<1>3. todo[Main] = {}
  BY ConstantFacts DEF Init
<1> QED
  BY <1>1, <1>2, <1>3 DEF ProviderInv, Loading, At

\* The provider's lists follow the configuration it loaded last.
LEMMA NextProviderInv == TypeOK /\ ProviderInv /\ [Next]_vars => ProviderInv'
<1> SUFFICES ASSUME TypeOK, ProviderInv, [Next]_vars PROVE ProviderInv'
  OBVIOUS
<1> USE ConstantFacts
<1> DEFINE Diffs == /\ provider.cache = provider.configMap
                    /\ provider.add \subseteq provider.configMap
                    /\ provider.del \cap provider.configMap = {}
           Loop == /\ Loading \/ At(Main, "register") => cur \in Providers \ rest
                   /\ pc[Main] \in {"asked", "answered"} => cur = "http"
           Unlisting == \A a \in Actors : At(a, "unlist") => key[a] \in Keys
           Done == Loading \/ pc[Main] \in {"off", "started"} => todo[Main] = {}
<1>1. CASE UNCHANGED vars
  BY <1>1 DEF vars, providerVars, loopVars, workVars, ProviderInv, Loading, At
<1>2. CASE Next
  <2>0. /\ Diffs /\ Loop /\ Unlisting /\ Done
        /\ pc \in [Actors -> MainPc \cup ReloaderPc] /\ pc[Main] \in MainPc
        /\ key \in [Actors -> Keys \cup {NoKey}] /\ todo \in [Actors -> SUBSET Keys]
        /\ rest \subseteq Providers
    BY DEF ProviderInv, TypeOK
  <2>1. Diffs'
    <3>1. CASE UNCHANGED provider
      BY <2>0, <3>1
    <3>2. CASE \E a \in Actors : LoadConfig(a)
      <4>1. PICK a \in Actors : LoadConfig(a)
        BY <3>2
      <4>2. \/ provider' = provider
            \/ /\ provider'.cache = answer[a].config
               /\ provider'.add = answer[a].config \ provider.cache
               /\ provider'.del = provider.cache \ answer[a].config
               /\ \/ /\ provider'.add \cup provider'.del = {}
                     /\ provider'.configMap = provider.configMap
                  \/ provider'.configMap = answer[a].config
        BY <4>1, LoadConfigType
      <4> QED
        BY <2>0, <4>2
    <3> QED
      BY <1>2, <3>1, <3>2, ProviderStep
  <2>2. Loop'
    <3>1. CASE ServerChanges \/ DirChanges \/ MapFault \/ \E k \in Keys : ReaderQuits(k)
      BY <2>0, <3>1 DEF ServerChanges, DirChanges, MapFault, ReaderQuits, loopVars, Loading, At
    <3>2. CASE MainNext
      <4>1. ASSUME NEW left \in SUBSET Providers, NextProvider(left)
            PROVE  Loop'
        <5>1. Providers \subseteq {"local", "http"}
          BY AgentAssumption
        <5>2. CASE left = {}
          BY <2>0, <4>1, <5>2 DEF NextProvider, Goto, Loading, At
        <5>3. CASE left # {}
          <6>1. cur' \in left /\ rest' = left \ {cur'} /\ pc' = [pc EXCEPT ![Main] = "load"]
            BY <4>1, <5>1, <5>3 DEF NextProvider, Goto
          <6> QED
            BY <2>0, <6>1 DEF Loading, At
        <5> QED
          BY <5>2, <5>3
      <4>2. CASE Start \/ StartReturns
        BY <2>0, <4>1, <4>2 DEF Start, StartReturns
      <4>3. CASE LoadLocal \/ StopReturns \/ (\E k \in Keys : StopReader(k)) \/ StopDel
        BY <2>0, <4>3 DEF LoadLocal, StopReturns, StopReader, StopDel, Del, Goto, Loading, At,
           loopVars
      <4>4. CASE GetInputs
        BY <2>0, <4>4 DEF GetInputs, Goto, Loading, At
      <4>5. CASE \E n \in InputNames : GetInputConfig(n)
        BY <2>0, <4>5 DEF GetInputConfig, Loading, At
      <4>6. CASE Stop
        BY <2>0, <4>6 DEF Stop, StopReloader, Goto, Loading, At, loopVars
      <4> QED
        BY <3>2, <4>2, <4>3, <4>4, <4>5, <4>6 DEF MainNext
    <3>3. CASE \E r \in Reloaders : ReloaderNext(r)
      BY <2>0, <3>3 DEF ReloaderNext, Select, Additions, Deletions, DeregisterDel, Del, PassEnds,
         DeregisterInput, Goto, Loading, At, loopVars
    <3>4. CASE \E a \in Actors : AnyNext(a)
      BY <2>0, <3>4 DEF AnyNext, Request, ServerAnswers, LoadFails, LoadConfig, Register,
         AfterLoad, Goto, Loading, At, loopVars, MainPc
    <3> QED
      BY <1>2, <3>1, <3>2, <3>3, <3>4 DEF Next, Step
  <2>3. Unlisting'
    <3>1. CASE ServerChanges \/ DirChanges \/ MapFault \/ \E k \in Keys : ReaderQuits(k)
      BY <2>0, <3>1 DEF ServerChanges, DirChanges, MapFault, ReaderQuits, workVars, At
    <3>2. CASE MainNext
      <4>1. CASE Start \/ StartReturns
        BY <2>0, <4>1 DEF Start, StartReturns, NextProvider, Goto, At, workVars
      <4>2. CASE LoadLocal \/ GetInputs \/ \E n \in InputNames : GetInputConfig(n)
        BY <2>0, <4>2 DEF LoadLocal, GetInputs, GetInputConfig, Goto, At, workVars
      <4>3. CASE StopReturns \/ (\E k \in Keys : StopReader(k)) \/ StopDel
        BY <2>0, <4>3 DEF StopReturns, StopReader, StopDel, Del, Goto, At, workVars
      <4>4. CASE Stop
        BY <2>0, <4>4 DEF Stop, StopReloader, Goto, At, workVars
      <4> QED
        BY <3>2, <4>1, <4>2, <4>3, <4>4 DEF MainNext
    <3>3. CASE \E r \in Reloaders : ReloaderNext(r)
      BY <2>0, <3>3 DEF ReloaderNext, Select, Additions, Deletions, DeregisterDel, Del, PassEnds,
         DeregisterInput, Goto, At, workVars
    <3>4. CASE \E a \in Actors : AnyNext(a)
      BY <2>0, <3>4 DEF AnyNext, Request, ServerAnswers, LoadFails, LoadConfig, Register,
         AfterLoad, Goto, At, workVars
    <3> QED
      BY <1>2, <3>1, <3>2, <3>3, <3>4 DEF Next, Step
  <2>4. Done'
    <3>1. CASE ServerChanges \/ DirChanges \/ MapFault \/ \E k \in Keys : ReaderQuits(k)
      BY <2>0, <3>1 DEF ServerChanges, DirChanges, MapFault, ReaderQuits, workVars, Loading
    <3>2. CASE MainNext
      <4>1. CASE Start \/ StartReturns \/ LoadLocal \/ GetInputs
        BY <2>0, <4>1 DEF Start, LoadLocal, GetInputs, StartReturns, NextProvider, Goto, At,
           workVars, Loading
      <4>2. CASE Stop
        BY <2>0, <4>2 DEF Stop, StopReloader, Goto, Loading
      <4>3. CASE StopDel \/ StopReturns \/ \E k \in Keys : StopReader(k)
        BY <2>0, <4>3 DEF StopDel, Del, StopReturns, StopReader, Goto, Loading
      <4>4. CASE \E n \in InputNames : GetInputConfig(n)
        BY <2>0, <4>4 DEF GetInputConfig, At, Loading
      <4> QED
        BY <3>2, <4>1, <4>2, <4>3, <4>4 DEF MainNext
    <3>3. CASE \E r \in Reloaders : ReloaderNext(r)
      BY <2>0, <3>3 DEF ReloaderNext, Select, Additions, Deletions, DeregisterDel, Del, PassEnds,
         DeregisterInput, Goto, At, workVars, Loading
    <3>4. CASE \E a \in Actors : AnyNext(a)
      BY <2>0, <3>4 DEF AnyNext, Request, ServerAnswers, LoadFails, LoadConfig, Register,
         AfterLoad, Goto, At, workVars, Loading, MainPc
    <3> QED
      BY <1>2, <3>1, <3>2, <3>3, <3>4 DEF Next, Step
  <2> QED
    BY <2>1, <2>2, <2>3, <2>4 DEF ProviderInv
<1> QED
  BY <1>1, <1>2

-----------------------------------------------------------------------------
(* One reloader *)

\* The actions that neither spawn nor end a reloader nor touch the token.
LEMMA AliveSame ==
  ASSUME TypeOK, ProviderInv,
         \/ ServerChanges \/ DirChanges \/ MapFault \/ (\E k \in Keys : ReaderQuits(k))
         \/ Start \/ LoadLocal \/ StartReturns \/ StopDel \/ StopReturns
         \/ (\E k \in Keys : StopReader(k)) \/ (\E n \in InputNames : GetInputConfig(n))
         \/ (\E r \in Reloaders : \/ Additions(r) \/ Deletions(r) \/ DeregisterDel(r)
                                  \/ PassEnds(r) \/ (\E k \in Keys : DeregisterInput(r, k)))
         \/ (\E a \in Actors : AnyNext(a))
  PROVE  Alive' = Alive /\ Spawned' = Spawned /\ token' = token
<1> USE ConstantFacts
<1>0. /\ pc \in [Actors -> MainPc \cup ReloaderPc] /\ pc[Main] \in MainPc
      /\ \A r \in Reloaders : pc[r] \in ReloaderPc
      /\ Loading \/ At(Main, "register") => cur \in Providers \ rest
      /\ rest \subseteq Providers
  BY DEF TypeOK, ProviderInv
<1>1. CASE ServerChanges \/ DirChanges \/ MapFault \/ (\E k \in Keys : ReaderQuits(k))
           \/ (\E n \in InputNames : GetInputConfig(n))
  BY <1>0, <1>1 DEF ServerChanges, DirChanges, MapFault, ReaderQuits, GetInputConfig, loopVars,
     Alive, Spawned, Loading, At
<1>2. CASE Start \/ StartReturns
  <2>1. Providers \subseteq {"local", "http"} /\ Providers # {}
    BY AgentAssumption
  <2>2. token' = token /\ \A r \in Reloaders : pc'[r] = pc[r]
    BY <1>0, <1>2 DEF Start, StartReturns, NextProvider, Goto
  <2>3. Alive' = Alive
    BY <2>2 DEF Alive, At
  <2>4. CASE Start
    <3>1. /\ At(Main, "off") /\ At(Main, "load")' /\ cur' \in Providers
          /\ rest' = Providers \ {cur'}
      BY <1>0, <2>1, <2>4 DEF Start, NextProvider, Goto, At
    <3> QED
      BY <2>2, <2>3, <3>1 DEF Spawned, Loading, At
  <2>5. CASE StartReturns /\ rest = {}
    <3>1. At(Main, "register") /\ At(Main, "started")'
      BY <1>0, <2>5 DEF StartReturns, NextProvider, Goto, At
    <3> QED
      BY <2>2, <2>3, <2>5, <3>1 DEF Spawned, Loading, At
  <2>6. CASE StartReturns /\ rest # {}
    <3>0. rest \subseteq {"local", "http"} /\ NextProvider(rest) /\ At(Main, "register")
      BY <1>0, <2>1, <2>6 DEF StartReturns
    <3>1. cur' \in rest /\ rest' = rest \ {cur'} /\ pc' = [pc EXCEPT ![Main] = "load"]
      BY <2>6, <3>0 DEF NextProvider, Goto
    <3>2. At(Main, "load")'
      BY <1>0, <3>1 DEF At
    <3> QED
      BY <1>0, <2>2, <2>3, <3>0, <3>1, <3>2 DEF Spawned, Loading, At
  <2> QED
    BY <1>2, <2>4, <2>5, <2>6
<1>3. CASE LoadLocal \/ StopDel \/ StopReturns \/ (\E k \in Keys : StopReader(k))
  BY <1>0, <1>3 DEF LoadLocal, StopReturns, StopReader, StopDel, Del, Goto, loopVars, Alive,
     Spawned, Loading, At
<1>4. CASE \E r \in Reloaders : \/ Additions(r) \/ Deletions(r) \/ DeregisterDel(r)
                                \/ PassEnds(r) \/ (\E k \in Keys : DeregisterInput(r, k))
  BY <1>0, <1>4 DEF Additions, Deletions, DeregisterDel, Del, PassEnds, DeregisterInput, Goto,
     loopVars, Alive, Spawned, Loading, At
<1>5. CASE \E a \in Actors : AnyNext(a)
  <2>1. PICK a \in Actors : AnyNext(a)
    BY <1>5
  <2>2. CASE \E k \in Keys : Register(a, k)
    BY <2>2 DEF Register, loopVars, Alive, Spawned, Loading, At
  <2>3. ASSUME NEW place, pc' = [pc EXCEPT ![a] = place], token' = token, UNCHANGED loopVars,
               a = Main => place \in {"asked", "answered", "names"} /\ Loading,
               a # Main => place # "none" /\ pc[a] # "none"
        PROVE  Alive' = Alive /\ Spawned' = Spawned /\ token' = token
    BY <1>0, <2>3 DEF loopVars, Alive, Spawned, Loading, At
  <2>4. CASE Request(a)
    BY <1>0, <2>3, <2>4 DEF Request, Goto, Loading, At, MainPc
  <2>5. CASE ServerAnswers(a)
    BY <1>0, <2>3, <2>5 DEF ServerAnswers, Goto, Loading, At
  <2>6. CASE LoadFails(a)
    BY <1>0, <2>3, <2>6 DEF LoadFails, AfterLoad, Goto, Loading, At
  <2>7. CASE LoadConfig(a)
    <3>1. PICK changed : pc' = [pc EXCEPT ![a] = AfterLoad(a, changed)]
      BY <2>7 DEF LoadConfig, Goto
    <3>2. At(a, "answered") /\ token' = token /\ UNCHANGED loopVars
      BY <2>7 DEF LoadConfig
    <3> QED
      BY <1>0, <2>3, <3>1, <3>2 DEF AfterLoad, Loading, At
  <2> QED
    BY <2>1, <2>2, <2>4, <2>5, <2>6, <2>7 DEF AnyNext
<1> QED
  BY <1>1, <1>2, <1>3, <1>4, <1>5

\* No reloader runs at first.
LEMMA InitOneReloader == Init => OneReloader
<1> SUFFICES ASSUME Init PROVE OneReloader
  OBVIOUS
<1>1. Alive = {} /\ ~Spawned /\ ~token
  BY ConstantFacts DEF Init, Alive, Spawned, Loading, At
<1> QED
  BY <1>1 DEF OneReloader

\* One reloader fewer for one Spawned or one token fewer.
LEMMA EndsOne ==
  ASSUME OneReloader, NEW r \in Alive, Alive' = Alive \ {r},
         \/ token /\ ~token' /\ Spawned' = Spawned
         \/ Spawned /\ ~Spawned' /\ token' = token
  PROVE  OneReloader'
<1>1. CASE Spawned /\ token
  <2>1. PICK p, q \in Reloaders : p # q /\ Alive = {p, q}
    BY <1>1 DEF OneReloader
  <2>2. \E x \in Reloaders : Alive' = {x}
    <3>1. CASE r = p
      BY <2>1, <3>1
    <3>2. CASE r = q
      BY <2>1, <3>2
    <3> QED
      BY <2>1, <3>1, <3>2
  <2> QED
    BY <1>1, <2>2 DEF OneReloader
<1>2. CASE ~(Spawned /\ token)
  <2>1. PICK p \in Reloaders : Alive = {p}
    BY <1>2 DEF OneReloader
  <2>2. Alive' = {}
    BY <2>1
  <2> QED
    BY <1>2, <2>2 DEF OneReloader
<1> QED
  BY <1>1, <1>2

\* Start spawns one reloader, Stop leaves one token for it, and one reloader
\* takes the token and ends.
LEMMA NextOneReloader == TypeOK /\ ProviderInv /\ OneReloader /\ [Next]_vars => OneReloader'
<1> SUFFICES ASSUME TypeOK, ProviderInv, OneReloader, [Next]_vars PROVE OneReloader'
  OBVIOUS
<1> USE ConstantFacts
<1>0. /\ pc \in [Actors -> MainPc \cup ReloaderPc] /\ pc[Main] \in MainPc
      /\ \A r \in Reloaders : pc[r] \in ReloaderPc
      /\ Loading \/ At(Main, "register") => cur \in Providers \ rest
      /\ rest \subseteq Providers /\ token \in BOOLEAN
  BY DEF TypeOK, ProviderInv
<1>1. CASE Alive' = Alive /\ Spawned' = Spawned /\ token' = token
  BY <1>1 DEF OneReloader
<1>2. CASE UNCHANGED vars
  <2>1. Alive' = Alive /\ Spawned' = Spawned /\ token' = token
    BY <1>2 DEF vars, loopVars, Alive, Spawned, Loading, At
  <2> QED
    BY <1>1, <2>1
<1>3. CASE GetInputs
  <2>1. CASE cur = "http"
    <3>1. PICK r \in Reloaders :
            /\ At(r, "none") /\ pc' = [pc EXCEPT ![Main] = "register", ![r] = "select"]
      BY <1>3, <2>1 DEF GetInputs
    <3>2. r \in Reloaders \ Alive /\ Alive' = Alive \cup {r}
      BY <1>0, <3>1 DEF Alive, At
    <3>3. ~Spawned /\ Spawned' /\ token' = token
      BY <1>0, <1>3, <2>1, <3>1 DEF GetInputs, Spawned, Loading, At
    <3>4. CASE token
      <4>1. PICK q \in Reloaders : Alive = {q}
        BY <3>3, <3>4 DEF OneReloader
      <4>2. q # r /\ Alive' = {q, r}
        BY <3>2, <4>1
      <4> QED
        BY <3>3, <3>4, <4>2 DEF OneReloader
    <3>5. CASE ~token
      <4>1. Alive' = {r}
        BY <3>2, <3>3, <3>5 DEF OneReloader
      <4> QED
        BY <3>3, <3>5, <4>1 DEF OneReloader
    <3> QED
      BY <3>4, <3>5
  <2>2. CASE cur # "http"
    <3>1. Alive' = Alive /\ Spawned' = Spawned /\ token' = token
      BY <1>0, <1>3, <2>2 DEF GetInputs, Goto, Spawned, Loading, At, Alive
    <3> QED
      BY <1>1, <3>1
  <2> QED
    BY <2>1, <2>2
<1>4. CASE Stop
  <2>1. CASE "http" \notin Providers
    <3>1. Alive' = Alive /\ Spawned' = Spawned /\ token' = token
      BY <1>0, <1>4, <2>1 DEF Stop, Goto, Spawned, Loading, At, Alive
    <3> QED
      BY <1>1, <3>1
  <2>2. CASE "http" \in Providers /\ \E r \in Reloaders : At(r, "parked")
    <3>1. PICK r \in Reloaders :
            /\ At(r, "parked") /\ token' = token
            /\ pc' = [pc EXCEPT ![Main] = "stopping", ![r] = "none"]
      BY <1>4, <2>2 DEF Stop, StopReloader
    <3>2. r \in Alive /\ Alive' = Alive \ {r}
      BY <1>0, <3>1 DEF Alive, At
    <3>3. Spawned /\ ~Spawned'
      BY <1>0, <1>4, <2>2, <3>1 DEF Stop, Spawned, Loading, At
    <3> QED
      BY <1>0, <3>1, <3>2, <3>3, EndsOne
  <2>3. CASE "http" \in Providers /\ ~\E r \in Reloaders : At(r, "parked")
    <3>1. ~token /\ token' /\ pc' = [pc EXCEPT ![Main] = "stopping"]
      BY <1>4, <2>3 DEF Stop, StopReloader, Goto
    <3>2. Alive' = Alive /\ Spawned /\ ~Spawned'
      BY <1>0, <1>4, <2>3, <3>1 DEF Stop, Spawned, Loading, At, Alive
    <3> QED
      BY <3>1, <3>2 DEF OneReloader
  <2> QED
    BY <2>1, <2>2, <2>3
<1>5. ASSUME NEW r \in Reloaders, Select(r)
      PROVE  OneReloader'
  <2>1. CASE token
    <3>1. pc' = [pc EXCEPT ![r] = "none"] /\ ~token' /\ At(r, "select") /\ UNCHANGED loopVars
      BY <1>5, <2>1 DEF Select, Goto
    <3>2. r \in Alive /\ Alive' = Alive \ {r}
      BY <1>0, <3>1 DEF Alive, At
    <3>3. Spawned' = Spawned
      BY <1>0, <3>1 DEF Spawned, Loading, At, loopVars
    <3> QED
      BY <1>0, <2>1, <3>1, <3>2, <3>3, EndsOne
  <2>2. CASE ~token
    <3>1. pc' = [pc EXCEPT ![r] = "parked"] /\ token' = FALSE /\ At(r, "select") /\ UNCHANGED loopVars
      BY <1>5, <2>2 DEF Select, Goto
    <3>2. Alive' = Alive /\ Spawned' = Spawned
      BY <1>0, <3>1 DEF Alive, Spawned, Loading, At, loopVars
    <3> QED
      BY <2>2, <3>1, <3>2 DEF OneReloader
  <2> QED
    BY <2>1, <2>2
<1> QED
  BY <1>1, <1>2, <1>3, <1>4, <1>5, AliveSame DEF Next, Step, MainNext, ReloaderNext

\* In every behaviour, whatever meets whatever, the reloaders alive are one for a
\* Start that reached StartReloader and one for a token not yet taken.
THEOREM ReloadersAreCounted == Spec => []OneReloader
<1>1. Spec => [](TypeOK /\ ProviderInv /\ OneReloader)
  BY InitType, NextType, InitProvider, NextProviderInv, InitOneReloader, NextOneReloader, PTL
     DEF Spec
<1> QED
  BY <1>1, PTL

-----------------------------------------------------------------------------
(* Orderly histories: what makes the refinement inductive *)

Orderly == TypeOK /\ OneReloader /\ ProviderInv /\ MainInv /\ PassInv

\* While a pass is under way its reloader is the only one.
LEMMA OnePass ==
  ASSUME Orderly, NEW r \in Reloaders, InPass(r)
  PROVE  /\ ~token /\ At(Main, "started")
         /\ \A q \in Reloaders : q # r => At(q, "none")
<1>1. At(Main, "started") /\ ~token
  BY DEF Orderly, MainInv, InPass, At
<1>2. r \in Alive
  BY DEF Alive, InPass, At
<1>3. PICK x \in Reloaders : Alive = {x}
  BY <1>1, <1>2 DEF Orderly, OneReloader
<1> QED
  BY <1>1, <1>2, <1>3 DEF Alive

\* What the steps on readers do to the set of those that gather.
LEMMA SendEffect ==
  ASSUME TypeOK, NEW k \in Keys, Send(k)
  PROVE  Running' = Running \ {k}
<1>1. record \in [Keys -> ReaderStates]
  BY DEF TypeOK
<1>2. record' = [record EXCEPT ![k] = IF @ = "run" THEN "told"
                                      ELSE IF @ = "dead" THEN "deadtold" ELSE @]
  BY DEF Send
<1> QED
  BY <1>1, <1>2 DEF Running

\* Taking a reader that does not run off the list stops nothing.
LEMMA DelEffect ==
  ASSUME TypeOK, NEW a \in Actors, NEW place, Del(a, place), key[a] \in Keys \ Running
  PROVE  Running' = Running /\ lost' = lost
<1>1. record \in [Keys -> ReaderStates] /\ lost \in [Keys -> Nat]
  BY DEF TypeOK
<1>2. record[key[a]] # "run"
  BY DEF Running
<1>3. record' = [record EXCEPT ![key[a]] = "none"] /\ lost' = [lost EXCEPT ![key[a]] = @ + 0]
  BY <1>2 DEF Del
<1> QED
  BY <1>1, <1>2, <1>3 DEF Running

\* inputGo starts at most the readers of its own input.
LEMMA GoEffect ==
  ASSUME TypeOK, NEW k \in Keys \ Running, inputGo(k)
  PROVE  lost' = lost /\ (Running' = Running \/ Running' = Running \cup {k})
<1>1. record \in [Keys -> ReaderStates] /\ lost \in [Keys -> Nat] /\ record[k] # "run"
  BY DEF TypeOK, Running
<1>2. CASE UNCHANGED readerVars
  BY <1>2 DEF readerVars, Running
<1>3. CASE ~UNCHANGED readerVars
  <2>1. /\ record' = [record EXCEPT ![k] = "run"] \/ record' = [record EXCEPT ![k] = "dead"]
        /\ lost' = [lost EXCEPT ![k] = @ + 0]
    BY <1>1, <1>3 DEF inputGo
  <2> QED
    BY <1>1, <2>1 DEF Running
<1> QED
  BY <1>2, <1>3

\* A step that leaves the readers that gather, the goroutines' places and lists
\* and the configuration alone keeps the invariants.
LEMMA SameInv ==
  ASSUME Orderly, Running' = Running,
         UNCHANGED <<pc, token, provider, inputNames, todo, key, names, cur, rest, lost>>
  PROVE  MainInv' /\ PassInv'
BY DEF Orderly, MainInv, PassInv, InPass, Applying, At, Loading, Target, Pending

\* While the main goroutine is in Start or Stop, no pass is under way, and the
\* facts about passes hold of themselves.
LEMMA QuietPass ==
  ASSUME ~Overlap', ~At(Main, "started")'
  PROVE  PassInv'
<1>1. \A r \in Reloaders : ~InPass(r)'
  BY DEF Overlap
<1> QED
  BY <1>1 DEF PassInv, InPass, At

\* Start, and Stop's return.
LEMMA MainSteps ==
  ASSUME Orderly, ~Overlap',
         Start \/ LoadLocal \/ GetInputs \/ StartReturns \/ Stop \/ StopReturns
  PROVE  MainInv' /\ PassInv'
<1> USE ConstantFacts
<1>0. /\ pc \in [Actors -> MainPc \cup ReloaderPc] /\ todo \in [Actors -> SUBSET Keys]
      /\ \A r \in Reloaders : InPass(r) => At(Main, "started")
      /\ token => \A r \in Reloaders : At(r, "none") \/ At(r, "select")
      /\ \A k \in Keys : lost[k] = 0
      /\ Loading \/ At(Main, "register") => cur \in Providers \ rest
      /\ Loading \/ pc[Main] \in {"off", "started"} => todo[Main] = {}
      /\ provider.configMap \subseteq HttpKeys /\ inputNames \subseteq LocalKeys
      /\ HttpKeys \cap LocalKeys = {}
  BY AgentAssumption DEF Orderly, TypeOK, ProviderInv, MainInv
<1>1. Running' = Running /\ lost' = lost
  BY DEF Start, LoadLocal, GetInputs, StartReturns, Stop, StopReturns, readerVars, Running
<1>2. \A r \in Reloaders : InPass(r)' => At(Main, "started")'
  BY DEF Overlap
<1>3. CASE Start
  <2>1. Providers \subseteq {"local", "http"} /\ Providers # {}
    BY AgentAssumption
  <2>2. Running = {}
    BY <1>3 DEF Start, Orderly, MainInv
  <2>3. pc' = [pc EXCEPT ![Main] = "load"] /\ UNCHANGED <<token, todo>>
    BY <1>3, <2>1 DEF Start, NextProvider, Goto, workVars
  <2>4. MainInv'
    BY <1>0, <1>1, <1>2, <2>2, <2>3 DEF MainInv, Loading, At
  <2> QED
    BY <1>0, <2>3, <2>4, QuietPass DEF At
<1>4. CASE LoadLocal
  <2>1. /\ pc[Main] = "load" /\ cur = "local" /\ inputNames' \subseteq Keys
        /\ pc' = [pc EXCEPT ![Main] = "names"]
        /\ UNCHANGED <<token, todo, provider, loopVars>>
    BY <1>0, <1>4 DEF LoadLocal, At, Goto, workVars, Orderly, TypeOK
  <2>2. Running \subseteq (provider.configMap \cup inputNames) \ Pending
    BY <2>1 DEF Orderly, MainInv, Loading, Target
  <2>3. Running \cap LocalKeys = {}
    BY <2>1, <2>2 DEF Pending, Loading, KeysOf
  <2>4. Running \subseteq provider.configMap
    BY <1>0, <2>2, <2>3
  <2>5. Pending' = Pending
    BY <1>0, <2>1 DEF Pending, Loading, At, loopVars
  <2>6. MainInv'
    BY <1>0, <1>1, <1>2, <2>1, <2>2, <2>4, <2>5 DEF MainInv, Loading, At, Target
  <2> QED
    BY <1>0, <2>1, <2>6, QuietPass DEF At
<1>5. CASE GetInputs
  <2>1. /\ pc[Main] = "names" /\ pc'[Main] = "register"
        /\ \A r \in Reloaders : pc'[r] = pc[r] \/ pc'[r] = "select"
        /\ names' = {NameOf(k) : k \in Configured}
        /\ UNCHANGED <<token, todo, provider, inputNames, cur, rest>>
    BY <1>0, <1>5 DEF GetInputs, At, Goto, workVars, providerVars
  <2>2. Running \subseteq Target \ Pending
    BY <2>1 DEF Orderly, MainInv, Loading
  <2>3. Pending' \subseteq Pending /\ Target' = Target /\ todo'[Main] = {}
    BY <1>0, <2>1 DEF Pending, Loading, At, Target
  <2>4. MainInv'
    BY <1>0, <1>1, <1>2, <2>1, <2>2, <2>3 DEF MainInv, Loading, At
  <2> QED
    BY <2>1, <2>4, QuietPass DEF At
<1>6. CASE StartReturns
  <2>1. /\ pc[Main] = "register" /\ todo[Main] = {} /\ names = {}
        /\ NextProvider(rest)
        /\ UNCHANGED <<token, todo, provider, inputNames, names>>
    BY <1>6 DEF StartReturns, At, workVars, providerVars
  <2>2. Running \subseteq Target \ Pending
    BY <2>1 DEF Orderly, MainInv, At
  <2>3. CASE rest = {}
    <3>1. pc' = [pc EXCEPT ![Main] = "started"]
      BY <2>1, <2>3 DEF NextProvider, Goto
    <3>2. MainInv'
      BY <1>0, <1>1, <1>2, <2>1, <3>1 DEF MainInv, Loading, At
    <3>3. Running' \subseteq Target' /\ \A r \in Reloaders : ~InPass(r)'
      BY <1>0, <1>1, <2>1, <2>2, <3>1 DEF Target, InPass, At
    <3>4. PassInv'
      BY <3>3 DEF PassInv, InPass, Applying, At
    <3> QED
      BY <3>2, <3>4
  <2>4. CASE rest # {}
    <3>0. rest \subseteq {"local", "http"}
      BY AgentAssumption DEF Orderly, TypeOK
    <3>1. /\ pc' = [pc EXCEPT ![Main] = "load"] /\ cur' \in rest /\ rest' = rest \ {cur'}
      BY <2>1, <2>4, <3>0 DEF NextProvider, Goto
    <3>2. Pending' = Pending /\ Target' = Target
      BY <1>0, <2>1, <3>1 DEF Pending, Target, Loading, At
    <3>3. MainInv'
      BY <1>0, <1>1, <1>2, <2>1, <2>2, <3>1, <3>2 DEF MainInv, Loading, At
    <3> QED
      BY <1>0, <3>1, <3>3, QuietPass DEF At
  <2> QED
    BY <2>3, <2>4
<1>7. CASE Stop
  <2>1. pc'[Main] = "stopping" /\ todo' = [todo EXCEPT ![Main] = Listed]
    BY <1>0, <1>7 DEF Stop, StopReloader, Goto
  <2>2. token' => \A r \in Reloaders : At(r, "none")' \/ At(r, "select")'
    <3>1. \A r \in Reloaders : ~InPass(r)'
      BY <1>2, <2>1 DEF At
    <3>2. \A r \in Reloaders : pc[r] \in ReloaderPc
      BY DEF Orderly, TypeOK
    <3>3. CASE "http" \notin Providers
      BY <1>0, <1>7, <3>3 DEF Stop, Goto, At
    <3>4. CASE "http" \in Providers /\ \E r \in Reloaders : At(r, "parked")
      <4>1. PICK r \in Reloaders :
              /\ token' = token /\ pc' = [pc EXCEPT ![Main] = "stopping", ![r] = "none"]
        BY <1>7, <3>4 DEF Stop, StopReloader
      <4> QED
        BY <1>0, <4>1 DEF At
    <3>5. CASE "http" \in Providers /\ ~\E r \in Reloaders : At(r, "parked")
      <4>1. pc' = [pc EXCEPT ![Main] = "stopping"]
        BY <1>7, <3>5 DEF Stop, StopReloader, Goto
      <4> QED
        BY <1>0, <3>1, <3>2, <3>5, <4>1 DEF At, InPass, ReloaderPc
    <3> QED
      BY <3>3, <3>4, <3>5
  <2>3. Running' \subseteq todo'[Main]
    BY <1>0, <1>1, <2>1 DEF Running, Listed
  <2>4. MainInv'
    BY <1>0, <1>1, <1>2, <2>1, <2>2, <2>3 DEF MainInv, Loading, At
  <2> QED
    BY <2>1, <2>4, QuietPass DEF At
<1>8. CASE StopReturns
  <2>1. /\ pc[Main] = "stopping" /\ pc' = [pc EXCEPT ![Main] = "off"]
        /\ todo[Main] \cap Listed = {} /\ token' = token
    BY <1>8 DEF StopReturns, Goto, At
  <2>2. Running = {}
    BY <2>1 DEF Orderly, MainInv, At, Running, Listed
  <2>3. MainInv'
    BY <1>0, <1>1, <1>2, <2>1, <2>2 DEF MainInv, Loading, At
  <2> QED
    BY <1>0, <2>1, <2>3, QuietPass DEF At
<1> QED
  BY <1>3, <1>4, <1>5, <1>6, <1>7, <1>8

\* Where LoadConfig goes on: to the additions only with a configuration whose
\* differences are not empty.
LEMMA LoadConfigGoes ==
  ASSUME TypeOK, NEW a \in Actors, LoadConfig(a)
  PROVE  \/ /\ provider'.configMap = provider.configMap
            /\ pc' = [pc EXCEPT ![a] = AfterLoad(a, FALSE)]
         \/ /\ provider'.configMap = answer[a].config
            /\ provider'.add = answer[a].config \ provider.cache
            /\ provider'.del = provider.cache \ answer[a].config
            /\ pc' = [pc EXCEPT ![a] = AfterLoad(a, TRUE)]
<1> DEFINE c == answer[a].config
           p == caculateDiff(c)
           news == answer[a].version # provider.version
           q == [p EXCEPT !.configMap = c, !.version = answer[a].version]
           P == [version : Versions \cup {NoVersion}, configMap : SUBSET HttpKeys,
                 cache : SUBSET HttpKeys, add : SUBSET HttpKeys, del : SUBSET HttpKeys]
<1>1. provider \in P
  BY DEF TypeOK
<1>2. p \in [version : Versions \cup {NoVersion}, configMap : SUBSET HttpKeys,
             cache : SUBSET HttpKeys, add : SUBSET HttpKeys, del : SUBSET HttpKeys]
      /\ p.configMap = provider.configMap /\ p.add = c \ provider.cache
      /\ p.del = provider.cache \ c
  BY DEF caculateDiff, TypeOK
<1>3. q.add = p.add /\ q.del = p.del /\ q.configMap = c
  <2> HIDE DEF p, c
  <2> QED
    BY <1>2
<1>4. CASE news /\ p.add \cup p.del # {}
  <2>1. provider' = q /\ pc' = [pc EXCEPT ![a] = AfterLoad(a, TRUE)]
    BY <1>4 DEF LoadConfig, Goto
  <2> QED
    BY <1>2, <1>3, <2>1
<1>5. CASE news /\ p.add \cup p.del = {}
  <2>1. provider' = p /\ pc' = [pc EXCEPT ![a] = AfterLoad(a, FALSE)]
    BY <1>5 DEF LoadConfig, Goto
  <2> QED
    BY <1>2, <2>1
<1>6. CASE ~news
  BY <1>6 DEF LoadConfig, Goto
<1> QED
  BY <1>4, <1>5, <1>6

\* Start registers only inputs that are configured and that no reader gathers.
LEMMA MainRegisters ==
  ASSUME Orderly, NEW k \in Keys, Register(Main, k)
  PROVE  /\ At(Main, "register") /\ k \in todo[Main] /\ k \in Target \ Running
         /\ lost' = lost /\ (Running' = Running \/ Running' = Running \cup {k})
<1>1. At(Main, "register") /\ k \in todo[Main]
  BY DEF Register, Orderly, TypeOK, MainPc, At
<1>2. k \in Target \ Running
  BY <1>1 DEF Orderly, MainInv, Pending
<1>3. CASE inputGo(k)
  BY <1>1, <1>2, <1>3, GoEffect DEF Orderly
<1>4. CASE UNCHANGED readerVars
  BY <1>1, <1>2, <1>4 DEF readerVars, Running
<1> QED
  BY <1>3, <1>4 DEF Register

\* Start's requests and registrations, and Stop's loops.
LEMMA MainLoops ==
  ASSUME Orderly, ~Overlap',
         \/ (\E n \in InputNames : GetInputConfig(n)) \/ StopDel
         \/ (\E k \in Keys : StopReader(k)) \/ AnyNext(Main)
  PROVE  MainInv' /\ PassInv'
<1> USE ConstantFacts
<1>0. /\ pc \in [Actors -> MainPc \cup ReloaderPc] /\ todo \in [Actors -> SUBSET Keys]
      /\ key \in [Actors -> Keys \cup {NoKey}] /\ pc[Main] \in MainPc
      /\ \A r \in Reloaders : InPass(r) => At(Main, "started")
      /\ token => \A r \in Reloaders : At(r, "none") \/ At(r, "select")
      /\ \A k \in Keys : lost[k] = 0
      /\ Loading \/ At(Main, "register") => cur \in Providers \ rest
      /\ Loading \/ pc[Main] \in {"off", "started"} => todo[Main] = {}
      /\ provider.configMap \subseteq HttpKeys /\ inputNames \subseteq LocalKeys
      /\ HttpKeys \cap LocalKeys = {}
  BY AgentAssumption DEF Orderly, TypeOK, ProviderInv, MainInv
<1>2. \A r \in Reloaders : InPass(r)' => At(Main, "started")'
  BY DEF Overlap
<1>3. ASSUME NEW n \in InputNames, GetInputConfig(n) PROVE MainInv' /\ PassInv'
  <2>1. /\ pc[Main] = "register" /\ todo[Main] = {} /\ n \in names /\ names' = names \ {n}
        /\ todo' = [todo EXCEPT ![Main] = IF n \in Accepted THEN Named(n, Readable) ELSE {}]
        /\ UNCHANGED <<token, provider, inputNames, pc, cur, rest, record, lost>>
    BY <1>3 DEF GetInputConfig, At, providerVars, readerVars
  <2>2. Running \subseteq Target \ Pending /\ Running' = Running
    BY <2>1 DEF Orderly, MainInv, At, Running
  <2>3. todo'[Main] \subseteq {k \in Configured : NameOf(k) = n}
    BY <1>0, <2>1 DEF Named, Readable
  <2>4. Configured \subseteq Target \cap KeysOf(cur)
    BY <1>0, <2>1 DEF Configured, Target, KeysOf
  <2>5. Pending' \subseteq Pending /\ Target' = Target
    BY <2>1, <2>3, <2>4 DEF Pending, Target, Loading, At
  <2>6. MainInv'
    BY <1>0, <1>2, <2>1, <2>2, <2>3, <2>4, <2>5 DEF MainInv, Loading, At
  <2> QED
    BY <2>1, <2>6, QuietPass DEF At
<1>4. CASE StopDel
  <2>1. /\ pc[Main] = "unlist" /\ pc' = [pc EXCEPT ![Main] = "stopping"]
        /\ todo' = [todo EXCEPT ![Main] = @ \ {key[Main]}] /\ Del(Main, "stopping")
        /\ token' = token
    BY <1>4 DEF StopDel, Del, Goto, At
  <2>2. key[Main] \in Keys \ Running /\ Running \subseteq todo[Main] \ {key[Main]}
    BY <2>1 DEF Orderly, ProviderInv, MainInv, At
  <2>3. Running' = Running /\ lost' = lost
    BY <2>1, <2>2, DelEffect DEF Orderly
  <2>4. MainInv'
    BY <1>0, <1>2, <2>1, <2>2, <2>3 DEF MainInv, Loading, At
  <2> QED
    BY <1>0, <2>1, <2>4, QuietPass DEF At
<1>5. ASSUME NEW k \in Keys, StopReader(k) PROVE MainInv' /\ PassInv'
  <2>1. /\ pc[Main] = "stopping" /\ pc' = [pc EXCEPT ![Main] = "unlist"] /\ Send(k)
        /\ key' = [key EXCEPT ![Main] = k] /\ UNCHANGED <<token, lost, todo>>
    BY <1>5 DEF StopReader, Goto, At
  <2>2. Running' = Running \ {k}
    BY <2>1, SendEffect DEF Orderly
  <2>3. Running \subseteq todo[Main]
    BY <2>1 DEF Orderly, MainInv, At
  <2>4. MainInv'
    BY <1>0, <1>2, <2>1, <2>2, <2>3 DEF MainInv, Loading, At
  <2> QED
    BY <1>0, <2>1, <2>4, QuietPass DEF At
<1>6. ASSUME NEW k \in Keys, Register(Main, k) PROVE MainInv' /\ PassInv'
  <2>1. /\ pc[Main] = "register" /\ todo' = [todo EXCEPT ![Main] = @ \ {k}]
        /\ UNCHANGED <<token, provider, inputNames, pc, cur, rest, names>>
    BY <1>6, MainRegisters DEF Register, At, providerVars, loopVars
  <2>2. /\ k \in todo[Main] /\ k \in Target \ Running /\ lost' = lost
        /\ Running' \subseteq Running \cup {k}
    BY <1>6, MainRegisters
  <2>3. /\ Running \subseteq Target \ Pending
        /\ todo[Main] \subseteq Target \cap KeysOf(cur)
    BY <2>1 DEF Orderly, MainInv, At
  <2>4. \A x \in todo[Main] : NameOf(x) \notin names
    BY <2>1 DEF Orderly, MainInv, At
  <2>5. \A p \in rest : k \notin KeysOf(p)
    <3>1. Providers \subseteq {"local", "http"}
      BY AgentAssumption
    <3>2. rest \subseteq Providers /\ cur \in Providers \ rest /\ k \in KeysOf(cur)
      BY <1>0, <2>1, <2>2, <2>3 DEF Orderly, TypeOK, At
    <3> QED
      BY <1>0, <3>1, <3>2 DEF KeysOf
  <2>6. Pending' \subseteq Pending \ {k} /\ Target' = Target
    BY <1>0, <2>1, <2>2, <2>4, <2>5 DEF Pending, Loading, At, Target
  <2>7. MainInv'
    BY <1>0, <1>2, <2>1, <2>2, <2>3, <2>4, <2>6 DEF MainInv, Loading, At
  <2> QED
    BY <2>1, <2>7, QuietPass DEF At
<1>7. CASE Request(Main) \/ ServerAnswers(Main) \/ LoadFails(Main)
  <2>1. /\ Loading /\ pc'[Main] \in {"asked", "answered", "names"}
        /\ \A r \in Reloaders : pc'[r] = pc[r]
        /\ UNCHANGED <<token, provider, inputNames, record, lost, todo, names, cur, rest>>
    BY <1>0, <1>7 DEF Request, ServerAnswers, LoadFails, AfterLoad, Goto, At, Loading, MainPc,
       providerVars, readerVars, workVars, loopVars
  <2>2. Running \subseteq Target \ Pending /\ Running' = Running
    BY <2>1 DEF Orderly, MainInv, Running
  <2>3. Pending' = Pending /\ Target' = Target
    BY <2>1 DEF Pending, Loading, At, Target
  <2>4. MainInv'
    BY <1>0, <1>2, <2>1, <2>2, <2>3 DEF MainInv, Loading, At
  <2> QED
    BY <2>1, <2>4, QuietPass DEF At
<1>8. CASE LoadConfig(Main)
  <2>1. /\ pc[Main] = "answered" /\ pc' = [pc EXCEPT ![Main] = "names"]
        /\ UNCHANGED <<token, inputNames, record, lost, todo, names, cur, rest>>
    BY <1>8, LoadConfigGoes DEF LoadConfig, AfterLoad, At, readerVars, workVars, loopVars, Orderly
  <2>2. /\ Running \subseteq Target \ Pending /\ Running' = Running /\ cur = "http"
    BY <2>1 DEF Orderly, MainInv, ProviderInv, Running, Loading, At
  <2>3. Running \subseteq inputNames
    BY <1>0, <2>1, <2>2 DEF Pending, Target, KeysOf, Loading
  <2>4. Pending' = Pending
    BY <1>0, <2>1 DEF Pending, Loading, At
  <2>5. inputNames \subseteq Target'
    BY <1>0, <2>1 DEF Target
  <2>6. MainInv'
    BY <1>0, <1>2, <2>1, <2>2, <2>3, <2>4, <2>5 DEF MainInv, Loading, At
  <2> QED
    BY <1>0, <2>1, <2>6, QuietPass DEF At
<1> QED
  BY <1>3, <1>4, <1>5, <1>6, <1>7, <1>8 DEF AnyNext

\* A pass registers only inputs that are configured and that no reader gathers.
LEMMA PassRegisters ==
  ASSUME Orderly, NEW r \in Reloaders, NEW k \in Keys, Register(r, k)
  PROVE  /\ At(r, "adding") /\ InPass(r) /\ k \in todo[r] /\ k \in Target \ Running
         /\ lost' = lost /\ (Running' = Running \/ Running' = Running \cup {k})
<1>1. At(r, "adding") /\ k \in todo[r] /\ InPass(r)
  BY DEF Register, Orderly, TypeOK, ReloaderPc, At, InPass
<1>2. k \in Target \ Running
  <2>1. At(Main, "started")
    BY <1>1, OnePass
  <2>2. provider.configMap \subseteq Target
    BY <2>1 DEF Target, At
  <2> QED
    BY <1>1, <2>2 DEF Orderly, PassInv
<1>3. CASE inputGo(k)
  BY <1>1, <1>2, <1>3, GoEffect DEF Orderly
<1>4. CASE UNCHANGED readerVars
  BY <1>1, <1>2, <1>4 DEF readerVars, Running
<1> QED
  BY <1>3, <1>4 DEF Register

\* A pass tells only readers whose input is no longer configured.
LEMMA PassDeregisters ==
  ASSUME Orderly, NEW r \in Reloaders, NEW k \in Keys, DeregisterInput(r, k)
  PROVE  InPass(r) /\ k \in todo[r] /\ k \notin Target /\ Running' = Running \ {k} /\ lost' = lost
<1>1. At(r, "deleting") /\ k \in todo[r] /\ InPass(r) /\ lost' = lost
  BY DEF DeregisterInput, At, InPass
<1>2. k \notin Target
  <2>1. k \in HttpKeys \ provider.configMap
    BY <1>1 DEF Orderly, PassInv
  <2>2. inputNames \subseteq LocalKeys /\ HttpKeys \cap LocalKeys = {}
    BY AgentAssumption DEF Orderly, TypeOK
  <2> QED
    BY <2>1, <2>2 DEF Target
<1>3. CASE record[k] = "none"
  BY <1>1, <1>2, <1>3 DEF DeregisterInput, Running
<1>4. CASE record[k] # "none"
  <2>1. Send(k)
    BY <1>4 DEF DeregisterInput
  <2> QED
    BY <1>1, <1>2, <2>1, SendEffect DEF Orderly
<1> QED
  BY <1>3, <1>4

\* What PassInv says of the one reloader whose pass is under way.
PassAt(r) ==
  /\ ~Applying(r) => Running \subseteq Target
  /\ At(r, "add") => Running \subseteq (Target \cup provider.del) \ provider.add
  /\ At(r, "adding") => /\ Running \subseteq (Target \cup provider.del) \ todo[r]
                       /\ todo[r] \subseteq provider.configMap
  /\ At(r, "deleting") => Running \subseteq Target \cup todo[r]
  /\ At(r, "unlist") => Running \subseteq Target \cup (todo[r] \ {key[r]})
  /\ At(r, "deleting") \/ At(r, "unlist") => todo[r] \subseteq HttpKeys \ provider.configMap
  /\ At(r, "unlist") => key[r] \in todo[r]

\* A step inside a pass that keeps what its place requires.
LEMMA PassStep ==
  ASSUME Orderly, NEW r \in Reloaders, InPass(r), NEW place,
         pc' = [pc EXCEPT ![r] = place], UNCHANGED <<token, lost>>, PassAt(r)'
  PROVE  MainInv' /\ PassInv'
<1> USE ConstantFacts
<1>1. ~token /\ pc[Main] = "started" /\ \A q \in Reloaders : q # r => pc[q] = "none"
  BY OnePass DEF At
<1>2. pc'[Main] = "started" /\ (\A q \in Reloaders : q # r => pc'[q] = "none") /\ ~token'
  BY <1>1 DEF Orderly, TypeOK
<1>3. \A k \in Keys : lost'[k] = 0
  BY DEF Orderly, MainInv
<1>4. MainInv'
  BY <1>2, <1>3 DEF MainInv, Loading, At
<1>5. PassInv'
  BY <1>2 DEF PassInv, PassAt, Applying, At
<1> QED
  BY <1>4, <1>5

\* The reloader's steps.
LEMMA ReloaderSteps ==
  ASSUME Orderly, ~Overlap', NEW r \in Reloaders, ReloaderNext(r) \/ AnyNext(r)
  PROVE  MainInv' /\ PassInv'
<1> USE ConstantFacts
<1>0. /\ pc \in [Actors -> MainPc \cup ReloaderPc] /\ todo \in [Actors -> SUBSET Keys]
      /\ key \in [Actors -> Keys \cup {NoKey}] /\ pc[r] \in ReloaderPc
  BY DEF Orderly, TypeOK
<1>1. CASE Select(r) \/ Request(r)
  <2>1. /\ pc[r] \in {"select", "parked"} /\ pc'[r] \in {"none", "parked", "asked"}
        /\ \A a \in Actors : a # r => pc'[a] = pc[a]
        /\ UNCHANGED <<provider, inputNames, record, lost, todo, key, names, cur, rest>>
    BY <1>0, <1>1 DEF Select, Request, Goto, At, providerVars, readerVars, workVars, loopVars
  <2>2. token' => \A q \in Reloaders : At(q, "none")' \/ At(q, "select")'
    <3>1. CASE Select(r)
      BY <3>1 DEF Select
    <3>2. CASE Request(r)
      <4>1. ~token
        BY <3>2 DEF Request, Orderly, MainInv, At
      <4> QED
        BY <3>2, <4>1 DEF Request
    <3> QED
      BY <1>1, <3>1, <3>2
  <2>3. Running' = Running /\ Target' = Target /\ Pending' = Pending
    BY <2>1 DEF Running, Target, Pending, Loading, At
  <2>4. MainInv'
    <3>1. \A q \in Reloaders : InPass(q)' => At(Main, "started")'
      BY DEF Overlap
    <3> QED
      BY <2>1, <2>2, <2>3, <3>1 DEF Orderly, MainInv, Loading, At
  <2>5. PassInv'
    BY <2>1, <2>3 DEF Orderly, PassInv, Applying, At
  <2> QED
    BY <2>4, <2>5
<1>2. CASE ServerAnswers(r) \/ LoadFails(r)
  <2>1. /\ pc[r] = "asked" /\ \E place \in {"answered", "select"} : pc' = [pc EXCEPT ![r] = place]
        /\ UNCHANGED <<token, provider, inputNames, record, lost>>
    BY <1>2 DEF ServerAnswers, LoadFails, AfterLoad, Goto, At, providerVars, readerVars
  <2>2. InPass(r) /\ ~Applying(r) /\ \A q \in Reloaders : ~Applying(q)
    BY <2>1, OnePass DEF InPass, Applying, At
  <2>3. Running \subseteq Target
    BY <2>2, OnePass DEF Orderly, PassInv
  <2>4. Running' = Running /\ Target' = Target
    BY <1>0, <2>1 DEF Running, Target
  <2>5. PassAt(r)'
    BY <1>0, <2>1, <2>3, <2>4 DEF PassAt, At
  <2> QED
    BY <2>1, <2>2, <2>5, PassStep
<1>3. CASE LoadConfig(r)
  <2>1. /\ pc[r] = "answered" /\ UNCHANGED <<token, inputNames, record, lost>>
    BY <1>3 DEF LoadConfig, At, readerVars
  <2>2. InPass(r) /\ ~Applying(r) /\ \A q \in Reloaders : ~Applying(q)
    BY <2>1, OnePass DEF InPass, Applying, At
  <2>3. Running \subseteq Target /\ Running' = Running /\ pc[Main] = "started"
    BY <2>1, <2>2, OnePass DEF Orderly, PassInv, Running, At
  <2>4. CASE /\ provider'.configMap = provider.configMap
             /\ pc' = [pc EXCEPT ![r] = AfterLoad(r, FALSE)]
    <3>1. pc' = [pc EXCEPT ![r] = "select"]
      BY <2>4 DEF AfterLoad
    <3>2. Target' = Target
      BY <1>0, <2>1, <2>4, <3>1 DEF Target
    <3>3. PassAt(r)'
      BY <1>0, <2>3, <3>1, <3>2 DEF PassAt, At
    <3> QED
      BY <2>1, <2>2, <3>1, <3>3, PassStep
  <2>5. CASE /\ provider'.configMap = answer[r].config
             /\ provider'.add = answer[r].config \ provider.cache
             /\ provider'.del = provider.cache \ answer[r].config
             /\ pc' = [pc EXCEPT ![r] = AfterLoad(r, TRUE)]
    <3>1. pc' = [pc EXCEPT ![r] = "add"]
      BY <2>5 DEF AfterLoad
    <3>2. /\ provider.cache = provider.configMap /\ inputNames \subseteq LocalKeys
          /\ answer[r].config \subseteq HttpKeys /\ HttpKeys \cap LocalKeys = {}
      BY AgentAssumption DEF Orderly, ProviderInv, TypeOK
    <3>3. Running \subseteq provider.cache \cup inputNames
      BY <2>3, <3>2 DEF Target
    <3>4. Target' = answer[r].config \cup inputNames
      BY <1>0, <2>1, <2>3, <2>5, <3>1 DEF Target
    <3>5. PassAt(r)'
      BY <1>0, <2>3, <2>5, <3>1, <3>2, <3>3, <3>4 DEF PassAt, Applying, At
    <3> QED
      BY <2>1, <2>2, <3>1, <3>5, PassStep
  <2> QED
    BY <1>3, <2>4, <2>5, LoadConfigGoes DEF Orderly
<1>4. CASE Additions(r) \/ Deletions(r) \/ PassEnds(r)
  <2>1. /\ InPass(r) /\ UNCHANGED <<token, provider, inputNames, record, lost>>
    BY <1>4 DEF Additions, Deletions, PassEnds, InPass, At, providerVars, readerVars
  <2>2. \A q \in Reloaders : q # r => ~Applying(q)
    BY <2>1, OnePass DEF Applying, At
  <2>3. Running' = Running /\ pc[Main] = "started"
    BY <2>1, OnePass DEF Running, At
  <2>4. /\ provider.add \subseteq provider.configMap
        /\ provider.del \cap provider.configMap = {} /\ provider.del \subseteq HttpKeys
    BY DEF Orderly, ProviderInv, TypeOK
  <2>5. CASE Additions(r)
    <3>1. /\ pc[r] = "add" /\ pc' = [pc EXCEPT ![r] = "adding"]
          /\ todo' = [todo EXCEPT ![r] = provider.add]
      BY <2>5 DEF Additions, Goto, At
    <3>2. Target' = Target
      BY <1>0, <2>1, <3>1 DEF Target
    <3>3. Running \subseteq (Target \cup provider.del) \ provider.add
      BY <3>1 DEF Orderly, PassInv, At
    <3>4. PassAt(r)'
      BY <1>0, <2>1, <2>3, <2>4, <3>1, <3>2, <3>3 DEF PassAt, Applying, At
    <3> QED
      BY <2>1, <3>1, <3>4, PassStep
  <2>6. CASE Deletions(r)
    <3>1. /\ pc[r] = "adding" /\ pc' = [pc EXCEPT ![r] = "deleting"]
          /\ todo' = [todo EXCEPT ![r] = provider.del]
      BY <2>6 DEF Deletions, Goto, At
    <3>2. Target' = Target
      BY <1>0, <2>1, <3>1 DEF Target
    <3>3. Running \subseteq Target \cup provider.del
      BY <3>1 DEF Orderly, PassInv, At
    <3>4. PassAt(r)'
      BY <1>0, <2>1, <2>3, <2>4, <3>1, <3>2, <3>3 DEF PassAt, Applying, At
    <3> QED
      BY <2>1, <3>1, <3>4, PassStep
  <2>7. CASE PassEnds(r)
    <3>1. /\ pc[r] = "deleting" /\ pc' = [pc EXCEPT ![r] = "select"] /\ todo[r] = {}
      BY <2>7 DEF PassEnds, Goto, At
    <3>2. Target' = Target
      BY <1>0, <2>1, <3>1 DEF Target
    <3>3. Running \subseteq Target
      BY <3>1 DEF Orderly, PassInv, At
    <3>4. PassAt(r)'
      BY <1>0, <2>3, <3>1, <3>2, <3>3 DEF PassAt, At
    <3> QED
      BY <2>1, <3>1, <3>4, PassStep
  <2> QED
    BY <1>4, <2>5, <2>6, <2>7
<1>5. ASSUME NEW k \in Keys, Register(r, k) PROVE MainInv' /\ PassInv'
  <2>1. /\ pc[r] = "adding" /\ pc' = pc /\ todo' = [todo EXCEPT ![r] = @ \ {k}]
        /\ UNCHANGED <<token, provider, inputNames>>
    BY <1>5, PassRegisters DEF Register, At, providerVars
  <2>2. /\ InPass(r) /\ k \in todo[r] /\ k \in Target /\ lost' = lost
        /\ Running' \subseteq Running \cup {k}
    BY <1>5, PassRegisters
  <2>3. /\ Running \subseteq (Target \cup provider.del) \ todo[r]
        /\ todo[r] \subseteq provider.configMap
    BY <2>1 DEF Orderly, PassInv, At
  <2>4. Target' = Target /\ pc' = [pc EXCEPT ![r] = "adding"]
    BY <1>0, <2>1 DEF Target
  <2>5. PassAt(r)'
    BY <1>0, <2>1, <2>2, <2>3, <2>4 DEF PassAt, Applying, At
  <2> QED
    BY <2>1, <2>2, <2>4, <2>5, PassStep
<1>6. ASSUME NEW k \in Keys, DeregisterInput(r, k) PROVE MainInv' /\ PassInv'
  <2>1. /\ pc[r] = "deleting" /\ pc' = [pc EXCEPT ![r] = "unlist"] /\ key' = [key EXCEPT ![r] = k]
        /\ UNCHANGED <<token, provider, inputNames, todo>>
    BY <1>6 DEF DeregisterInput, Goto, At, providerVars
  <2>2. InPass(r) /\ k \in todo[r] /\ k \notin Target /\ Running' = Running \ {k} /\ lost' = lost
    BY <1>6, PassDeregisters
  <2>3. Running \subseteq Target \cup todo[r] /\ todo[r] \subseteq HttpKeys \ provider.configMap
    BY <2>1 DEF Orderly, PassInv, At
  <2>4. Target' = Target
    BY <1>0, <2>1 DEF Target
  <2>5. PassAt(r)'
    BY <1>0, <2>1, <2>2, <2>3, <2>4 DEF PassAt, Applying, At
  <2> QED
    BY <2>1, <2>2, <2>5, PassStep
<1>7. CASE DeregisterDel(r)
  <2>1. /\ pc[r] = "unlist" /\ pc' = [pc EXCEPT ![r] = "deleting"] /\ Del(r, "deleting")
        /\ todo' = [todo EXCEPT ![r] = @ \ {key[r]}] /\ UNCHANGED <<token, provider, inputNames>>
    BY <1>7 DEF DeregisterDel, Del, Goto, At, providerVars
  <2>2. /\ Running \subseteq Target \cup (todo[r] \ {key[r]}) /\ key[r] \in todo[r]
        /\ todo[r] \subseteq HttpKeys \ provider.configMap
    BY <2>1 DEF Orderly, PassInv, At
  <2>3. inputNames \subseteq LocalKeys /\ HttpKeys \cap LocalKeys = {}
    BY AgentAssumption DEF Orderly, TypeOK
  <2>4. key[r] \in Keys \ Running
    BY <1>0, <2>2, <2>3 DEF Target
  <2>5. Running' = Running /\ lost' = lost /\ InPass(r)
    BY <2>1, <2>4, DelEffect DEF Orderly, InPass
  <2>6. Target' = Target
    BY <1>0, <2>1 DEF Target
  <2>7. PassAt(r)'
    BY <1>0, <2>1, <2>2, <2>5, <2>6 DEF PassAt, Applying, At
  <2> QED
    BY <2>1, <2>5, <2>7, PassStep
<1> QED
  BY <1>1, <1>2, <1>3, <1>4, <1>5, <1>6, <1>7 DEF ReloaderNext, AnyNext

\* At first neither Start nor a pass is at work.
LEMMA InitOrderly == Init => MainInv /\ PassInv
<1> SUFFICES ASSUME Init PROVE MainInv /\ PassInv
  OBVIOUS
<1>1. pc[Main] = "off" /\ \A r \in Reloaders : pc[r] = "none"
  BY ConstantFacts DEF Init
<1>2. ~token /\ Running = {} /\ \A k \in Keys : lost[k] = 0
  BY DEF Init, Running
<1> QED
  BY <1>1, <1>2 DEF MainInv, PassInv, InPass, Applying, Loading, At

\* The actors' steps together.
LEMMA OrderlyStep ==
  ASSUME Orderly, Next, ~Overlap'
  PROVE  MainInv' /\ PassInv'
<1>1. CASE ServerChanges \/ DirChanges \/ MapFault \/ \E k \in Keys : ReaderQuits(k)
  <2>1. UNCHANGED <<pc, token, provider, inputNames, todo, key, names, cur, rest, lost>>
    BY <1>1 DEF ServerChanges, DirChanges, MapFault, ReaderQuits, providerVars, readerVars,
       workVars, loopVars
  <2>2. Running' = Running
    <3>1. CASE ServerChanges \/ DirChanges \/ MapFault
      BY <3>1 DEF ServerChanges, DirChanges, MapFault, readerVars, Running
    <3>2. CASE \E k \in Keys : ReaderQuits(k)
      BY <3>2 DEF ReaderQuits, Running, Orderly, TypeOK
    <3> QED
      BY <1>1, <3>1, <3>2
  <2> QED
    BY <2>1, <2>2, SameInv
<1>2. CASE MainNext
  BY <1>2, MainSteps, MainLoops DEF MainNext
<1>3. CASE \E r \in Reloaders : ReloaderNext(r)
  BY <1>3, ReloaderSteps
<1>4. CASE \E a \in Actors : AnyNext(a)
  BY <1>4, ConstantFacts, ReloaderSteps, MainLoops
<1> QED
  BY <1>1, <1>2, <1>3, <1>4 DEF Next, Step

\* AgentInv is an invariant of the agent: beside the types and the count of
\* reloaders, in an orderly history Stop visits whatever gathers, Start
\* registers only what does not, and a pass applies the differences of the
\* configuration in force.
THEOREM AgentInvariant == Spec => []AgentInv
<1>1. Init => AgentInv
  BY InitType, InitOneReloader, InitProvider, InitOrderly DEF AgentInv
<1>2. AgentInv /\ [Next]_vars => AgentInv'
  <2> SUFFICES ASSUME AgentInv, [Next]_vars PROVE AgentInv'
    OBVIOUS
  <2>1. TypeOK' /\ OneReloader' /\ ProviderInv'
    BY NextType, NextOneReloader, NextProviderInv DEF AgentInv
  <2>2. CASE Next
    <3>1. ASSUME ~overlapped' PROVE MainInv' /\ PassInv'
      <4>1. ~overlapped /\ ~Overlap'
        BY <2>2, <3>1 DEF Next, Step
      <4>2. Orderly
        BY <4>1 DEF AgentInv, Orderly
      <4> QED
        BY <2>2, <4>1, <4>2, OrderlyStep
    <3> QED
      BY <2>1, <3>1 DEF AgentInv
  <2>3. CASE UNCHANGED vars
    <3>1. /\ UNCHANGED <<pc, token, provider, inputNames, todo, key, names, cur, rest, lost, record>>
          /\ overlapped' = overlapped
      BY <2>3 DEF vars, providerVars, readerVars, workVars, loopVars
    <3>2. Running' = Running
      BY <3>1 DEF Running
    <3>3. ASSUME ~overlapped' PROVE MainInv' /\ PassInv'
      <4>1. Orderly
        BY <3>1, <3>3 DEF AgentInv, Orderly
      <4> QED
        BY <3>1, <3>2, <4>1, SameInv
    <3> QED
      BY <2>1, <3>3 DEF AgentInv
  <2> QED
    BY <2>2, <2>3
<1> QED
  BY <1>1, <1>2, PTL DEF Spec

-----------------------------------------------------------------------------
(* The refinement *)

\* With no reader lost, what is collected is what runs, before and after a step.
LEMMA CollectingIs ==
  /\ (\A k \in Keys : lost[k] = 0)
       => Collecting = [k \in Keys |-> IF k \in Running THEN 1 ELSE 0]
  /\ (\A k \in Keys : lost'[k] = 0)
       => Collecting' = [k \in Keys |-> IF k \in Running' THEN 1 ELSE 0]
<1>1. \A k \in Keys : (k \in Running <=> record[k] = "run") /\ (k \in Running' <=> record'[k] = "run")
  BY DEF Running
<1>2. ASSUME \A k \in Keys : lost[k] = 0
      PROVE  \A k \in Keys : lost[k] + (IF record[k] = "run" THEN 1 ELSE 0)
                             = IF k \in Running THEN 1 ELSE 0
  BY <1>1, <1>2
<1>3. ASSUME \A k \in Keys : lost'[k] = 0
      PROVE  \A k \in Keys : lost'[k] + (IF record'[k] = "run" THEN 1 ELSE 0)
                             = IF k \in Running' THEN 1 ELSE 0
  BY <1>1, <1>3
<1>4. /\ Collecting = [k \in Keys |-> lost[k] + (IF record[k] = "run" THEN 1 ELSE 0)]
      /\ Collecting' = [k \in Keys |-> lost'[k] + (IF record'[k] = "run" THEN 1 ELSE 0)]
  BY DEF Collecting
<1> QED
  BY <1>2, <1>3, <1>4

\* How a step changes what is collected: as InputCollection allows.
LEMMA CollectingStep ==
  ASSUME Orderly, Next
  PROVE  \/ Collecting' = Collecting
         \/ \E k \in Keys : /\ k \in Target /\ Target' = Target /\ Collecting[k] = 0
                            /\ Collecting' = [Collecting EXCEPT ![k] = 1]
         \/ \E k \in Keys : /\ k \notin Target /\ Target' = Target /\ Collecting[k] = 1
                            /\ Collecting' = [Collecting EXCEPT ![k] = 0]
<1> USE ConstantFacts
<1> DEFINE Goal == \/ Collecting' = Collecting
                   \/ \E k \in Keys : /\ k \in Target /\ Target' = Target /\ Collecting[k] = 0
                                      /\ Collecting' = [Collecting EXCEPT ![k] = 1]
                   \/ \E k \in Keys : /\ k \notin Target /\ Target' = Target /\ Collecting[k] = 1
                                      /\ Collecting' = [Collecting EXCEPT ![k] = 0]
<1>0. /\ pc \in [Actors -> MainPc \cup ReloaderPc] /\ record \in [Keys -> ReaderStates]
      /\ \A k \in Keys : lost[k] = 0
  BY DEF Orderly, TypeOK, MainInv
<1>1. Collecting = [k \in Keys |-> IF k \in Running THEN 1 ELSE 0]
  BY <1>0, CollectingIs
<1>2. ASSUME lost' = lost
      PROVE  Collecting' = [k \in Keys |-> IF k \in Running' THEN 1 ELSE 0]
  BY <1>0, <1>2, CollectingIs
<1>3. ASSUME lost' = lost, Running' = Running PROVE Goal
  BY <1>1, <1>2, <1>3
<1>4. ASSUME NEW k \in Target \ Running, k \in Keys, Target' = Target, lost' = lost,
             Running' = Running \cup {k}
      PROVE  Goal
  <2>1. Collecting[k] = 0 /\ Collecting' = [Collecting EXCEPT ![k] = 1]
    BY <1>1, <1>2, <1>4
  <2> QED
    BY <1>4, <2>1
<1>5. ASSUME NEW k \in Keys \ Target, Target' = Target, lost' = lost, Running' = Running \ {k}
      PROVE  Goal
  <2>1. CASE k \in Running
    <3>1. Collecting[k] = 1 /\ Collecting' = [Collecting EXCEPT ![k] = 0]
      BY <1>1, <1>2, <1>5, <2>1
    <3> QED
      BY <1>5, <3>1
  <2>2. CASE k \notin Running
    BY <1>3, <1>5, <2>2
  <2> QED
    BY <2>1, <2>2
<1> SUFFICES Goal
  OBVIOUS
<1> HIDE DEF Goal
<1>6. CASE UNCHANGED readerVars
  BY <1>3, <1>6 DEF readerVars, Running
<1>7. CASE \E k \in Keys : ReaderQuits(k)
  <2>1. PICK k \in Keys : ReaderQuits(k)
    BY <1>7
  <2>2. lost' = lost /\ \E s \in ReaderStates \ {"run"} :
                          record[k] # "run" /\ record' = [record EXCEPT ![k] = s]
    BY <2>1 DEF ReaderQuits, ReaderStates
  <2>3. Running' = Running
    BY <1>0, <2>2 DEF Running
  <2> QED
    BY <1>3, <2>2, <2>3
<1>8. ASSUME NEW a \in Actors, NEW k \in Keys, Register(a, k) PROVE Goal
  <2>1. k \in Target \ Running /\ lost' = lost /\ (Running' = Running \/ Running' = Running \cup {k})
    BY <1>8, MainRegisters, PassRegisters
  <2>2. Target' = Target
    BY <1>8 DEF Register, Target, providerVars
  <2> QED
    BY <1>3, <1>4, <2>1, <2>2
<1>9. ASSUME NEW k \in Keys, StopReader(k) PROVE Goal
  <2>1. Target = {} /\ Target' = {} /\ lost' = lost /\ Send(k)
    BY <1>0, <1>9 DEF StopReader, Target, Goto, At
  <2>2. Running' = Running \ {k}
    BY <2>1, SendEffect DEF Orderly
  <2> QED
    BY <1>5, <2>1, <2>2
<1>10. ASSUME NEW r \in Reloaders, NEW k \in Keys, DeregisterInput(r, k) PROVE Goal
  <2>1. k \notin Target /\ Running' = Running \ {k} /\ lost' = lost
    BY <1>10, PassDeregisters
  <2>2. Target' = Target
    BY <1>0, <1>10 DEF DeregisterInput, Goto, Target, providerVars
  <2> QED
    BY <1>5, <2>1, <2>2
<1>11. CASE StopDel
  <2>1. key[Main] \in Keys \ Running /\ Del(Main, "stopping")
    BY <1>11 DEF StopDel, Orderly, ProviderInv, MainInv, At
  <2> QED
    BY <1>3, <2>1, DelEffect DEF Orderly
<1>12. ASSUME NEW r \in Reloaders, DeregisterDel(r) PROVE Goal
  <2>1. /\ Running \subseteq Target \cup (todo[r] \ {key[r]}) /\ key[r] \in todo[r]
        /\ todo[r] \subseteq HttpKeys \ provider.configMap /\ Del(r, "deleting")
    BY <1>12 DEF DeregisterDel, Orderly, PassInv, At
  <2>2. inputNames \subseteq LocalKeys /\ HttpKeys \cap LocalKeys = {}
    BY AgentAssumption DEF Orderly, TypeOK
  <2>3. key[r] \in Keys \ Running
    BY <2>1, <2>2 DEF Target
  <2> QED
    BY <1>3, <2>1, <2>3, DelEffect DEF Orderly
<1> QED
  <2>1. CASE ServerChanges \/ DirChanges \/ MapFault
    BY <1>6, <2>1 DEF ServerChanges, DirChanges, MapFault
  <2>2. CASE MainNext
    <3>1. CASE Start \/ LoadLocal \/ GetInputs \/ StartReturns \/ Stop \/ StopReturns
      BY <1>6, <3>1 DEF Start, LoadLocal, GetInputs, StartReturns, Stop, StopReturns
    <3>2. CASE \E n \in InputNames : GetInputConfig(n)
      BY <1>6, <3>2 DEF GetInputConfig
    <3> QED
      BY <1>9, <1>11, <2>2, <3>1, <3>2 DEF MainNext
  <2>3. CASE \E r \in Reloaders : ReloaderNext(r)
    <3>1. CASE \E r \in Reloaders : Select(r) \/ Additions(r) \/ Deletions(r) \/ PassEnds(r)
      BY <1>6, <3>1 DEF Select, Additions, Deletions, PassEnds
    <3> QED
      BY <1>10, <1>12, <2>3, <3>1 DEF ReloaderNext
  <2>4. CASE \E a \in Actors : AnyNext(a)
    <3>1. CASE \E a \in Actors : Request(a) \/ ServerAnswers(a) \/ LoadFails(a) \/ LoadConfig(a)
      BY <1>6, <3>1 DEF Request, ServerAnswers, LoadFails, LoadConfig
    <3> QED
      BY <1>8, <2>4, <3>1 DEF AnyNext
  <2> QED
    BY <1>7, <2>1, <2>2, <2>3, <2>4 DEF Next, Step

\* The agent implements InputCollection, for every configuration, any number of
\* reloads and every interleaving of passes, signals and answers.
THEOREM AgentImplementsCollection == Spec => ImplementsCollection
<1>1. Init => Abstract!Init
  <2> SUFFICES ASSUME Init PROVE Abstract!Init
    OBVIOUS
  <2>1. Target = {}
    BY ConstantFacts DEF Init, Target
  <2>2. Collecting = [k \in Keys |-> 0]
    <3>1. \A k \in Keys : lost[k] = 0 /\ record[k] = "none"
      BY DEF Init
    <3> QED
      BY <3>1 DEF Collecting
  <2>3. ~overlapped
    BY DEF Init
  <2> QED
    BY <2>1, <2>2, <2>3 DEF Abstract!Init
<1>2. AgentInv /\ TypeOK' /\ [Next]_vars => [Abstract!Next]_(Abstract!collectionVars)
  <2> SUFFICES ASSUME AgentInv, TypeOK', [Next]_vars
               PROVE  [Abstract!Next]_(Abstract!collectionVars)
    OBVIOUS
  <2>1. CASE UNCHANGED vars
    <3>1. Target' = Target /\ Collecting' = Collecting /\ overlapped' = overlapped
      BY <2>1 DEF vars, providerVars, readerVars, Target, Collecting
    <3> QED
      BY <3>1 DEF Abstract!collectionVars
  <2>2. CASE Next /\ overlapped'
    BY <2>2 DEF Abstract!Next, Abstract!Disorder
  <2>3. CASE Next /\ ~overlapped'
    <3>1. ~overlapped
      BY <2>3 DEF Next, Step
    <3>2. Orderly
      BY <3>1 DEF AgentInv, Orderly
    <3>3. Target' \in SUBSET Keys
      BY ConstantFacts DEF TypeOK, Target
    <3>4. CASE Collecting' = Collecting
      <4>1. Abstract!Adopt
        BY <2>3, <3>1, <3>3, <3>4 DEF Abstract!Adopt
      <4> QED
        BY <3>1, <4>1 DEF Abstract!Next
    <3>5. CASE \E k \in Keys : /\ k \in Target /\ Target' = Target /\ Collecting[k] = 0
                               /\ Collecting' = [Collecting EXCEPT ![k] = 1]
      <4>1. \E k \in Keys : Abstract!Begin(k)
        BY <2>3, <3>1, <3>5 DEF Abstract!Begin
      <4> QED
        BY <3>1, <4>1 DEF Abstract!Next
    <3>6. CASE \E k \in Keys : /\ k \notin Target /\ Target' = Target /\ Collecting[k] = 1
                               /\ Collecting' = [Collecting EXCEPT ![k] = 0]
      <4>1. \E k \in Keys : Abstract!End(k)
        BY <2>3, <3>1, <3>6 DEF Abstract!End
      <4> QED
        BY <3>1, <4>1 DEF Abstract!Next
    <3> QED
      BY <2>3, <3>2, <3>4, <3>5, <3>6, CollectingStep
  <2> QED
    BY <2>1, <2>2, <2>3
<1> QED
  BY <1>1, <1>2, AgentInvariant, AgentTypes, PTL DEF Spec, ImplementsCollection, Abstract!CollectionSpec
=============================================================================
