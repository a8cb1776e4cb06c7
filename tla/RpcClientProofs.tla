--------------------------- MODULE RpcClientProofs ---------------------------
(* Proofs about RpcClient for any number of callers, servers and faults: an   *)
(* RPC in flight keeps its connection, and no connection is leaked.           *)
EXTENDS RpcClient, TLAPS

\* The provers, in the order in which they are tried.
USE ZenonT(2), SMTT(30), ZenonT(60)

\* The servers' addresses: distinct indices have distinct addresses.
LEMMA ServerFacts ==
  /\ Len(Servers) \in Nat /\ DOMAIN Servers = 1..Len(Servers)
  /\ \A n \in DOMAIN Servers : Servers[n] \in Addresses
  /\ \A m, n \in DOMAIN Servers : Servers[m] = Servers[n] => m = n
  /\ None \notin Callers /\ None \notin Conns
BY ClientAssumption DEF Addresses

\* No call is in flight at first and no connection is open.
LEMMA InitClient == Init => ClientInv
<1> SUFFICES ASSUME Init PROVE ClientInv
  OBVIOUS
<1>1. faults \in 0..MaxFaults /\ next \in Nat \ {0}
  BY ClientAssumption DEF Init
<1>2. TypeOK
  BY <1>1 DEF Init, TypeOK, Places
<1>3. \A x \in Callers : pc[x] = "idle"
  BY DEF Init
<1>4. LockInv
  BY <1>3, ServerFacts DEF Init, LockInv, Connecting, At
<1>5. ConnInv /\ InFlightIsOpen /\ NoneIsLeaked
  BY <1>3 DEF Init, ConnInv, InFlightIsOpen, NoneIsLeaked, Connecting, At
<1> QED
  BY <1>2, <1>4, <1>5 DEF ClientInv

\* A step of a caller that gives the write lock back: the readers that waited
\* for it have the read lock, and nobody connects.
LEMMA UnlockStep ==
  ASSUME ClientInv, NEW x \in Callers, NEW place \in {"call", "sleep", "idle"},
         Unlock(x, place), writer = x, active = {}
  PROVE  /\ LockInv'
         /\ ~Connecting' /\ (\A y \in Callers : ~At(y, "rpc")')
         /\ pc' \in [Callers -> Places] /\ active' \subseteq Callers /\ writer' = None
<1>0. /\ pc \in [Callers -> Places]
      /\ active = {y \in Callers : At(y, "read") \/ At(y, "rpc")}
      /\ \A y \in Callers : writer = y <=> pc[y] \in {"wait", "dial", "ping", "closing"}
  BY DEF ClientInv, TypeOK, LockInv
<1>1. \A y \in Callers : ~At(y, "read") /\ ~At(y, "rpc")
  BY <1>0
<1>2. \A y \in Callers : y # x => pc[y] \notin {"wait", "dial", "ping", "closing"}
  BY <1>0
<1>3. /\ writer' = None /\ active' = {y \in Callers : pc[y] = "blocked"}
      /\ \A y \in Callers : pc'[y] = IF y = x THEN place
                                     ELSE IF pc[y] = "blocked" THEN "read" ELSE pc[y]
      /\ pc' \in [Callers -> Places]
  BY <1>0 DEF Unlock, At, Places
<1>4. pc[x] \in {"wait", "dial", "ping", "closing"}
  BY <1>0
<1>5. \A y \in Callers : pc'[y] \notin {"wait", "dial", "ping", "closing", "rpc"}
  BY <1>1, <1>2, <1>3 DEF At
<1>6. active' = {y \in Callers : At(y, "read")' \/ At(y, "rpc")'}
  BY <1>1, <1>3, <1>4, <1>5 DEF At
<1>7. LockInv'
  BY <1>3, <1>5, <1>6, ServerFacts DEF LockInv, Connecting, At
<1> QED
  BY <1>3, <1>5, <1>7 DEF Connecting, At

\* A caller's step: at most one caller holds or wants the write lock, so that a
\* caller that connects is the only one.
LEMMA OneWriter ==
  ASSUME ClientInv, NEW x \in Callers, At(x, "dial") \/ At(x, "ping")
  PROVE  /\ writer = x /\ active = {} /\ cli = None /\ Connecting
         /\ \A y \in Callers : y # x => pc[y] \notin {"wait", "dial", "ping", "closing", "rpc", "read"}
<1>1. Connecting
  BY DEF Connecting
<1> QED
  BY <1>1 DEF ClientInv, LockInv, At

\* The steps that change no connection: taking and giving back the read lock,
\* an RPC, its failure, asking for the write lock, sleeping.
LEMMA ReadSteps ==
  ASSUME ClientInv, NEW x \in Callers,
         Begin(x) \/ RLock(x) \/ Read(x) \/ Returns(x) \/ Fails(x) \/ Lock(x) \/ Wakes(x)
  PROVE  ClientInv'
<1> USE ServerFacts
<1>0. /\ pc \in [Callers -> Places] /\ mine \in [Callers -> Conns \cup {None}]
      /\ cli \in Conns \cup {None} /\ active \subseteq Callers /\ writer \in Callers \cup {None}
      /\ active = {y \in Callers : pc[y] = "read" \/ pc[y] = "rpc"}
      /\ \A y \in Callers : writer = y <=> pc[y] \in {"wait", "dial", "ping", "closing"}
      /\ Connecting => active = {} /\ cli = None
      /\ cli # None => conn[cli] # "closed"
      /\ \A y \in Callers : pc[y] = "rpc" => mine[y] = cli /\ cli # None /\ conn[cli] # "closed"
  BY DEF ClientInv, TypeOK, LockInv, ConnInv, InFlightIsOpen, At
<1>1. UNCHANGED <<cli, conn, to, connectVars, worldVars>>
  BY DEF Begin, RLock, Read, Returns, Fails, Lock, Wakes
<1>2. \E place \in Places : pc' = [pc EXCEPT ![x] = place]
  BY DEF Begin, RLock, Read, Returns, Fails, Lock, Wakes, Goto, Places
<1>3. pc'[x] \notin {"dial", "ping"} /\ pc[x] \notin {"dial", "ping"}
  BY <1>0 DEF Begin, RLock, Read, Returns, Fails, Lock, Wakes, Goto, At
<1>4. Connecting' = Connecting /\ \A y \in Callers : /\ At(y, "dial")' = At(y, "dial")
                                                     /\ At(y, "ping")' = At(y, "ping")
  BY <1>0, <1>2, <1>3 DEF Connecting, At
<1>5. TypeOK'
  <2>1. mine' \in [Callers -> Conns \cup {None}]
    BY <1>0 DEF Begin, RLock, Read, Returns, Fails, Lock, Wakes
  <2>2. active' \subseteq Callers /\ writer' \in Callers \cup {None}
    BY <1>0 DEF Begin, RLock, Read, RUnlock, Returns, Fails, Lock, Wakes, lockVars
  <2>3. pc' \in [Callers -> Places]
    BY <1>0, <1>2
  <2> QED
    BY <1>1, <2>1, <2>2, <2>3 DEF ClientInv, TypeOK, connectVars, worldVars
<1>6. LockInv'
  <2>1. active' = {y \in Callers : pc'[y] = "read" \/ pc'[y] = "rpc"}
    BY <1>0 DEF Begin, RLock, Read, RUnlock, Returns, Fails, Lock, Wakes, Goto, At, lockVars
  <2>2. \A y \in Callers : writer' = y <=> pc'[y] \in {"wait", "dial", "ping", "closing"}
    BY <1>0 DEF Begin, RLock, Read, RUnlock, Returns, Fails, Lock, Wakes, Goto, At, lockVars
  <2>3. Connecting => active' \subseteq active
    <3>1. Connecting => writer # None
      BY <1>0 DEF Connecting, At
    <3> QED
      BY <1>0, <3>1 DEF Begin, RLock, Read, RUnlock, Returns, Fails, Lock, Wakes, lockVars
  <2> QED
    BY <1>0, <1>1, <1>4, <2>1, <2>2, <2>3 DEF LockInv, At
<1>7. ConnInv'
  BY <1>1, <1>4 DEF ClientInv, ConnInv, connectVars, Dialling
<1>8. InFlightIsOpen'
  BY <1>0, <1>1 DEF Begin, RLock, Read, Returns, Fails, Lock, Wakes, Goto, At, InFlightIsOpen
<1>9. NoneIsLeaked'
  BY <1>1, <1>4 DEF ClientInv, NoneIsLeaked, connectVars
<1> QED
  BY <1>5, <1>6, <1>7, <1>8, <1>9 DEF ClientInv

\* The steps that give the write lock back: a connect that finds a connection or
\* ends, and CloseCli.
LEMMA WriteSteps ==
  ASSUME ClientInv, NEW x \in Callers,
         Connected(x) \/ CloseCli(x) \/ (Connect(x) /\ cli # None)
  PROVE  ClientInv'
<1> USE ServerFacts
<1>0. /\ pc \in [Callers -> Places] /\ mine \in [Callers -> Conns \cup {None}]
      /\ cli \in Conns \cup {None} /\ conn \in [Conns -> {"closed", "open", "broken"}]
      /\ best \in Conns \cup {None}
      /\ cli # None => conn[cli] # "closed"
      /\ NoneIsLeaked
  BY DEF ClientInv, TypeOK, ConnInv
<1>1. \E place \in {"call", "sleep", "idle"} : Unlock(x, place)
  BY DEF Connected, CloseCli, Connect
<1>2. writer = x /\ active = {}
  BY OneWriter DEF Connected, CloseCli, Connect, Held
<1>3. /\ LockInv' /\ ~Connecting' /\ (\A y \in Callers : ~At(y, "rpc")')
      /\ pc' \in [Callers -> Places] /\ active' \subseteq Callers /\ writer' = None
  BY <1>1, <1>2, UnlockStep
<1>4. \A y \in Callers : ~At(y, "dial")' /\ ~At(y, "ping")'
  BY <1>3 DEF Connecting
<1>5. CASE Connected(x)
  <2>1. /\ conn' = [c \in Conns |-> IF c # best /\ (\E a \in Addresses : acm[a] = c)
                                    THEN "closed" ELSE conn[c]]
        /\ cli' = best /\ UNCHANGED <<mine, to, connectVars, worldVars>> /\ At(x, "dial")
    BY <1>5 DEF Connected
  <2>2. cli = None /\ Connecting
    BY <2>1, OneWriter
  <2>3. best # None => conn[best] # "closed"
    BY <2>2 DEF ClientInv, ConnInv
  <2>4. TypeOK'
    BY <1>0, <1>3, <2>1 DEF ClientInv, TypeOK, connectVars, worldVars
  <2>5. ConnInv'
    BY <1>0, <1>3, <1>4, <2>1, <2>3 DEF ConnInv
  <2>6. NoneIsLeaked'
    BY <1>0, <2>1, <2>2 DEF NoneIsLeaked
  <2> QED
    BY <1>3, <2>4, <2>5, <2>6 DEF ClientInv, InFlightIsOpen
<1>6. CASE CloseCli(x)
  <2>1. /\ conn' = [c \in Conns |-> IF c = cli THEN "closed" ELSE conn[c]] /\ At(x, "closing")
        /\ cli' = None /\ UNCHANGED <<mine, to, connectVars, worldVars>>
    BY <1>6 DEF CloseCli
  <2>2. ~Connecting
    BY <1>2, <2>1, OneWriter DEF Connecting, At
  <2>3. TypeOK'
    BY <1>0, <1>3, <2>1 DEF ClientInv, TypeOK, connectVars, worldVars
  <2>4. ConnInv'
    BY <1>3, <1>4, <2>1 DEF ConnInv
  <2>5. NoneIsLeaked'
    BY <1>0, <2>1, <2>2 DEF NoneIsLeaked
  <2> QED
    BY <1>3, <2>3, <2>4, <2>5 DEF ClientInv, InFlightIsOpen
<1>7. CASE Connect(x) /\ cli # None
  <2>1. /\ next' = 1 /\ acm' = [a \in Addresses |-> None] /\ best' = None
        /\ UNCHANGED <<mine, cli, conn, to, worldVars>>
    BY <1>7 DEF Connect
  <2>2. ~Connecting
    BY <1>7 DEF ClientInv, LockInv
  <2>3. TypeOK'
    BY <1>3, <2>1 DEF ClientInv, TypeOK, worldVars
  <2>4. ConnInv'
    BY <1>0, <1>3, <1>4, <2>1 DEF ConnInv
  <2>5. NoneIsLeaked'
    BY <1>0, <2>1, <2>2 DEF NoneIsLeaked
  <2> QED
    BY <1>3, <2>3, <2>4, <2>5 DEF ClientInv, InFlightIsOpen
<1> QED
  BY <1>5, <1>6, <1>7

\* The steps of connect, and of a server.
LEMMA ConnectSteps ==
  ASSUME ClientInv, NEW x \in Callers,
         (Connect(x) /\ cli = None) \/ Dial(x) \/ PingReturns(x) \/ PingFails(x)
  PROVE  ClientInv'
<1> USE ServerFacts
<1>0. /\ pc \in [Callers -> Places] /\ mine \in [Callers -> Conns \cup {None}]
      /\ conn \in [Conns -> {"closed", "open", "broken"}] /\ to \in [Conns -> Addresses \cup {None}]
      /\ acm \in [Addresses -> Conns \cup {None}] /\ best \in Conns \cup {None}
      /\ next \in Nat \ {0}
      /\ \A y \in Callers : writer = y <=> pc[y] \in {"wait", "dial", "ping", "closing"}
      /\ active = {y \in Callers : pc[y] = "read" \/ pc[y] = "rpc"}
  BY DEF ClientInv, TypeOK, LockInv, At
<1>1. /\ writer = x /\ active = {} /\ cli = None
      /\ \A y \in Callers : y # x => pc[y] \notin {"wait", "dial", "ping", "closing", "rpc", "read"}
  <2>1. CASE Connect(x) /\ cli = None
    BY <1>0, <2>1 DEF Connect, Held
  <2>2. CASE At(x, "dial") \/ At(x, "ping")
    BY <2>2, OneWriter
  <2> QED
    BY <2>1, <2>2 DEF Dial, PingReturns, PingFails
<1>2. \E place \in {"dial", "ping"} : pc' = [pc EXCEPT ![x] = place]
  <2>1. CASE pc' = pc
    <3>1. pc[x] = "dial"
      BY <1>0, <1>1, <2>1 DEF Connect, Dial, PingReturns, PingFails, Goto, At
    <3>2. pc' = [pc EXCEPT ![x] = "dial"]
      BY <1>0, <2>1, <3>1
    <3> QED
      BY <3>2
  <2>2. CASE pc' # pc
    BY <1>0, <1>1, <2>2 DEF Connect, Dial, PingReturns, PingFails, Goto
  <2> QED
    BY <2>1, <2>2
<1>3. UNCHANGED <<mine, active, writer, cli, worldVars>>
  BY <1>1 DEF Connect, Dial, PingReturns, PingFails, lockVars
<1>4. /\ pc'[x] \in {"dial", "ping"} /\ pc' \in [Callers -> Places]
      /\ \A y \in Callers : y # x => pc'[y] = pc[y]
  BY <1>0, <1>2 DEF Places
<1>5. Connecting'
  BY <1>4 DEF Connecting, At
<1>6. LockInv'
  <2>1. pc[x] \in {"wait", "dial", "ping", "closing"}
    BY <1>0, <1>1
  <2> QED
    BY <1>0, <1>1, <1>3, <1>4, <2>1 DEF LockInv, At
<1>7. InFlightIsOpen'
  BY <1>1, <1>4 DEF InFlightIsOpen, At
<1>8. \A y \in Callers : At(y, "dial")' \/ At(y, "ping")' => y = x
  BY <1>1, <1>4 DEF At
<1> SUFFICES TypeOK' /\ ConnInv' /\ NoneIsLeaked'
  BY <1>6, <1>7 DEF ClientInv
<1>9. CASE Connect(x) /\ cli = None
  <2>1. /\ next' = 1 /\ acm' = [a \in Addresses |-> None] /\ best' = None
        /\ UNCHANGED <<conn, to>> /\ pc' = [pc EXCEPT ![x] = "dial"] /\ pc[x] = "wait"
    BY <1>9 DEF Connect, Goto, At
  <2>2. ~Connecting
    BY <1>1, <2>1 DEF Connecting, At
  <2>3. \A c \in Conns : conn[c] = "closed"
    BY <1>9, <2>2, ServerFacts DEF ClientInv, NoneIsLeaked
  <2>4. TypeOK'
    BY <1>3, <1>4, <2>1 DEF ClientInv, TypeOK, worldVars
  <2>5. ConnInv'
    <3>1. \A a \in Addresses : acm'[a] = None
      BY <2>1
    <3>2. \A y \in Callers : ~At(y, "ping")'
      BY <1>0, <1>8, <2>1 DEF At
    <3>3. cli' = None /\ best' = None /\ next' = 1 /\ DOMAIN Servers = 1..Len(Servers)
      BY <1>1, <1>3, <2>1
    <3>4. 1 <= Len(Servers) => Servers[1] \in Addresses
      OBVIOUS
    <3> QED
      BY <3>1, <3>2, <3>3, <3>4 DEF ConnInv, Dialling
  <2>6. NoneIsLeaked'
    BY <2>1, <2>3 DEF NoneIsLeaked
  <2> QED
    BY <2>4, <2>5, <2>6
<1>10. CASE Dial(x) \/ PingReturns(x) \/ PingFails(x)
  <2>0. /\ Connecting /\ (At(x, "dial") \/ At(x, "ping"))
        /\ best # None => \E a \in Addresses : acm[a] = best
        /\ \A a \in Addresses : acm[a] # None => conn[acm[a]] # "closed"
        /\ \A n \in DOMAIN Servers : n > next => acm[Servers[n]] = None
        /\ \A c \in Conns : conn[c] # "closed" => \E a \in Addresses : acm[a] = c
    <3>1. At(x, "dial") \/ At(x, "ping")
      BY <1>10 DEF Dial, PingReturns, PingFails
    <3>2. Connecting
      BY <3>1 DEF Connecting
    <3> QED
      BY <1>1, <3>1, <3>2 DEF ClientInv, ConnInv, NoneIsLeaked
  <2>1. CASE Dial(x) /\ server[Dialling] = "down"
    <3>1. next' = next + 1 /\ UNCHANGED <<pc, conn, to, acm, best>> /\ pc[x] = "dial"
      BY <2>1 DEF Dial, At
    <3>2. TypeOK'
      BY <1>3, <1>4, <3>1 DEF ClientInv, TypeOK, worldVars
    <3>3. ConnInv'
      BY <1>0, <1>1, <1>3, <1>8, <2>0, <3>1 DEF ConnInv, Dialling, At
    <3>4. NoneIsLeaked'
      BY <1>5, <2>0, <3>1 DEF NoneIsLeaked
    <3> QED
      BY <3>2, <3>3, <3>4
  <2>2. CASE Dial(x) /\ server[Dialling] # "down"
    <3>1. PICK c \in Conns :
            /\ conn[c] = "closed" /\ conn' = [conn EXCEPT ![c] = "open"]
            /\ to' = [to EXCEPT ![c] = Dialling] /\ acm' = [acm EXCEPT ![Dialling] = c]
            /\ pc' = [pc EXCEPT ![x] = "ping"] /\ next' = next /\ best' = best
      BY <2>2 DEF Dial, Goto
    <3>2. At(x, "dial") /\ next <= Len(Servers) /\ Dialling \in Addresses /\ next \in DOMAIN Servers
      BY <1>0, <2>2 DEF Dial, Dialling
    <3>3. acm[Dialling] = None
      BY <3>2 DEF ClientInv, ConnInv
    <3>4. TypeOK'
      BY <1>0, <1>3, <1>4, <3>1, <3>2 DEF ClientInv, TypeOK, worldVars
    <3>5. \A n \in DOMAIN Servers : n > next' => acm'[Servers[n]] = None
      BY <1>0, <2>0, <3>1, <3>2 DEF Dialling
    <3>6. /\ best' # None => \E a \in Addresses : acm'[a] = best'
          /\ \A a \in Addresses : acm'[a] # None => conn'[acm'[a]] # "closed"
      <4>1. \A a \in Addresses : acm[a] # None => acm'[a] = acm[a] /\ acm[a] \in Conns
        BY <1>0, <3>1, <3>2, <3>3
      <4>2. acm'[Dialling] = c /\ \A a \in Addresses \ {Dialling} : acm'[a] = acm[a]
        BY <1>0, <3>1, <3>2
      <4>3. conn'[c] = "open" /\ \A d \in Conns \ {c} : conn'[d] = conn[d]
        BY <1>0, <3>1
      <4>4. best' # None => \E a \in Addresses : acm'[a] = best'
        BY <1>0, <2>0, <3>1, <4>1
      <4>5. ASSUME NEW a \in Addresses, acm'[a] # None PROVE conn'[acm'[a]] # "closed"
        BY <1>0, <2>0, <4>2, <4>3, <4>5
      <4> QED
        BY <4>4, <4>5
    <3>7. \A y \in Callers : ~At(y, "dial")'
      BY <1>0, <1>8, <3>1 DEF At
    <3>8. acm'[Dialling] = c /\ Dialling' = Dialling /\ c # None
      BY <1>0, <3>1, <3>2 DEF Dialling
    <3>9. ConnInv'
      BY <1>1, <1>3, <3>1, <3>2, <3>5, <3>6, <3>7, <3>8 DEF ConnInv
    <3>10. NoneIsLeaked'
      BY <1>0, <1>5, <2>0, <3>1, <3>2, <3>3 DEF NoneIsLeaked
    <3> QED
      BY <3>4, <3>9, <3>10
  <2>3. CASE PingReturns(x) \/ PingFails(x)
    <3>1. /\ next' = next + 1 /\ UNCHANGED <<conn, to, acm>> /\ pc' = [pc EXCEPT ![x] = "dial"]
          /\ best' \in {acm[Dialling], best} /\ At(x, "ping")
      BY <2>3 DEF PingReturns, PingFails, Goto
    <3>2. next <= Len(Servers) /\ acm[Dialling] # None /\ Dialling \in Addresses
      BY <1>0, <3>1 DEF ClientInv, ConnInv, Dialling
    <3>3. TypeOK'
      BY <1>0, <1>3, <1>4, <3>1, <3>2 DEF ClientInv, TypeOK, worldVars
    <3>4. ConnInv'
      <4>1. \A y \in Callers : ~At(y, "ping")'
        BY <1>0, <1>8, <3>1 DEF At
      <4>2. best' # None => \E a \in Addresses : acm'[a] = best'
        BY <2>0, <3>1, <3>2
      <4>3. \A n \in DOMAIN Servers : n > next => acm'[Servers[n]] = None
        BY <2>0, <3>1
      <4>4. next' <= Len(Servers) => Servers[next'] \in Addresses /\ acm'[Servers[next']] = None
        BY <1>0, <3>1, <4>3
      <4> QED
        BY <1>0, <1>1, <1>3, <2>0, <3>1, <4>1, <4>2, <4>3, <4>4 DEF ConnInv, Dialling
    <3>5. NoneIsLeaked'
      BY <1>5, <2>0, <3>1 DEF NoneIsLeaked
    <3> QED
      BY <3>3, <3>4, <3>5
  <2> QED
    BY <1>10, <2>1, <2>2, <2>3
<1> QED
  BY <1>9, <1>10

\* A server that stops breaks connections and closes none.
LEMMA ServerSteps ==
  ASSUME ClientInv, NEW a \in Addresses, ServerChanges(a)
  PROVE  ClientInv'
<1>0. conn \in [Conns -> {"closed", "open", "broken"}] /\ faults \in 0..MaxFaults
      /\ server \in [Addresses -> {"up", "mute", "down"}] /\ MaxFaults \in Nat
  BY ClientAssumption DEF ClientInv, TypeOK
<1>1. /\ conn' \in [Conns -> {"closed", "open", "broken"}]
      /\ \A c \in Conns : conn'[c] = "closed" <=> conn[c] = "closed"
  BY <1>0 DEF ServerChanges
<1>2. server' \in [Addresses -> {"up", "mute", "down"}]
  BY <1>0 DEF ServerChanges
<1>3. faults' \in 0..MaxFaults
  BY <1>0 DEF ServerChanges
<1>4. UNCHANGED <<pc, mine, lockVars, cli, to, connectVars>>
  BY DEF ServerChanges
<1>5. TypeOK'
  BY <1>1, <1>2, <1>3, <1>4 DEF ClientInv, TypeOK, lockVars, connectVars
<1>6. LockInv'
  BY <1>4 DEF ClientInv, LockInv, Connecting, At, lockVars
<1>7. ConnInv'
  BY <1>1, <1>4 DEF ClientInv, TypeOK, ConnInv, Connecting, At, connectVars, Dialling
<1>8. InFlightIsOpen' /\ NoneIsLeaked'
  <2>1. \A x \in Callers : At(x, "rpc") => mine[x] = cli /\ cli # None /\ conn[cli] # "closed"
    BY DEF ClientInv, InFlightIsOpen
  <2>2. cli \in Conns \cup {None}
    BY DEF ClientInv, TypeOK
  <2> QED
    BY <1>1, <1>4, <2>1, <2>2 DEF ClientInv, InFlightIsOpen, NoneIsLeaked, Connecting, At, connectVars
<1> QED
  BY <1>5, <1>6, <1>7, <1>8 DEF ClientInv

\* Every step of a caller, of the dialler and of a server keeps the invariant.
LEMMA NextClient == ClientInv /\ [Next]_vars => ClientInv'
<1> SUFFICES ASSUME ClientInv, [Next]_vars PROVE ClientInv'
  OBVIOUS
<1>1. CASE UNCHANGED vars
  BY <1>1 DEF ClientInv, TypeOK, LockInv, ConnInv, InFlightIsOpen, NoneIsLeaked, Connecting, At,
     Dialling, vars, lockVars, connectVars, worldVars
<1>2. CASE Next
  BY <1>2, ServerSteps, ReadSteps, WriteSteps, ConnectSteps DEF Next, Call
<1> QED
  BY <1>1, <1>2

\* In every behaviour, with any number of callers and servers, who holds
\* the lock is where it says, and neither the current connection nor one of a
\* connect under way has been closed by the client.
THEOREM ClientInvariant == Spec => []ClientInv
BY InitClient, NextClient, PTL DEF Spec

\* In every behaviour, with any number of callers and servers, an RPC in flight
\* is on the current connection and nobody has closed it.
THEOREM CallsKeepTheirConnection == Spec => []InFlightIsOpen
<1>1. ClientInv => InFlightIsOpen
  BY DEF ClientInv
<1> QED
  BY <1>1, ClientInvariant, PTL

\* ... and every connection that connect opened is the current one, is still in
\* connect's hands, or is closed.
THEOREM ConnectionsAreNotLeaked == Spec => []NoneIsLeaked
<1>1. ClientInv => NoneIsLeaked
  BY DEF ClientInv
<1> QED
  BY <1>1, ClientInvariant, PTL

\* The types hold in every behaviour.
THEOREM ClientTypes == Spec => []TypeOK
<1>1. ClientInv => TypeOK
  BY DEF ClientInv
<1> QED
  BY <1>1, ClientInvariant, PTL
=============================================================================
