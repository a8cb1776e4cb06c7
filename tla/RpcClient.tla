------------------------------- MODULE RpcClient -------------------------------
(* ibex/client/cli.go: the one connection to a job server that all goroutines *)
(* of the agent share.  Call takes the read lock for the whole of an RPC, and *)
(* the write lock to connect when there is no connection; a caller whose RPC  *)
(* fails calls CloseCli, which takes the write lock and closes whatever       *)
(* connection is current by then.                                             *)
EXTENDS Naturals, Sequences

CONSTANTS
  Callers,      \* the heartbeat and the runs that fetch their meta data
  Servers,      \* config.Ibex.Servers, a sequence of addresses
  Conns,        \* connections (a closed one is used again)
  MaxFaults     \* bound: changes of the servers' state

None == "none"
Addresses == {Servers[n] : n \in DOMAIN Servers}

\* The map of connect is by address: no address is configured twice.
ASSUME ClientAssumption ==
  /\ Servers \in Seq(Addresses)
  /\ \A m, n \in DOMAIN Servers : Servers[m] = Servers[n] => m = n
  /\ None \notin Callers \cup Conns
  /\ MaxFaults \in Nat

VARIABLES
  pc,           \* where each caller is
  mine,         \* c: the connection a caller read under the lock
  active,       \* cliMu: the callers that hold the read lock,
  writer,       \*        the one that has asked for the write lock or holds it
  cli,          \* the current connection
  conn,         \* the state of a connection: "closed", "open" or "broken"
  to,           \* the address it was dialled to
  next,         \* connect: the server to dial next,
  acm,          \*          the connection to each address
  best,         \*          the fastest so far
  server,       \* the state of a server: "up", "mute" (accepts, never answers), "down"
  faults

lockVars == <<active, writer>>
connectVars == <<next, acm, best>>
worldVars == <<server, faults>>
vars == <<pc, mine, lockVars, cli, conn, to, connectVars, worldVars>>

Init ==
  /\ pc = [x \in Callers |-> "idle"]
  /\ mine = [x \in Callers |-> None]
  /\ active = {} /\ writer = None
  /\ cli = None
  /\ conn = [c \in Conns |-> "closed"]
  /\ to = [c \in Conns |-> None]
  /\ next = 1 /\ acm = [a \in Addresses |-> None] /\ best = None
  /\ server \in [Addresses -> {"up", "mute", "down"}]
  /\ faults = 0

Goto(x, place) == pc' = [pc EXCEPT ![x] = place]
At(x, place) == pc[x] = place

----------------------------------------------------------------------------
(* The world *)

\* A server that stops loses its connections; one that hangs keeps them.
ServerChanges(a) ==
  /\ faults < MaxFaults
  /\ \E s \in {"up", "mute", "down"} \ {server[a]} :
       /\ server' = [server EXCEPT ![a] = s]
       /\ conn' = [c \in Conns |-> IF conn[c] = "open" /\ to[c] = a /\ s = "down"
                                   THEN "broken" ELSE conn[c]]
  /\ faults' = faults + 1
  /\ UNCHANGED <<pc, mine, lockVars, cli, to, connectVars>>

----------------------------------------------------------------------------
(* cliMu, a sync.RWMutex: readers that come after a writer wait for it, and    *)
(* all of them go before the next one.                                          *)

RLock(x) ==
  /\ At(x, "call")
  /\ IF writer = None THEN active' = active \cup {x} /\ Goto(x, "read")
     ELSE active' = active /\ Goto(x, "blocked")
  /\ UNCHANGED <<mine, writer, cli, conn, to, connectVars, worldVars>>

RUnlock(x) == active' = active \ {x} /\ UNCHANGED writer

Lock(x) ==
  /\ At(x, "lock") \/ At(x, "failed")
  /\ writer = None /\ writer' = x
  /\ Goto(x, IF At(x, "lock") THEN "wait" ELSE "closing")
  /\ UNCHANGED <<mine, active, cli, conn, to, connectVars, worldVars>>

\* The writer has the lock once the readers before it have gone.
Held(x) == writer = x /\ active = {}

\* Unlock lets the waiting readers in.
Unlock(x, place) ==
  /\ writer' = None
  /\ active' = {y \in Callers : At(y, "blocked")}
  /\ pc' = [y \in Callers |-> IF y = x THEN place ELSE IF At(y, "blocked") THEN "read" ELSE pc[y]]

----------------------------------------------------------------------------
(* Call *)

Begin(x) ==
  /\ At(x, "idle")
  /\ Goto(x, "call")
  /\ UNCHANGED <<mine, lockVars, cli, conn, to, connectVars, worldVars>>

\* Call that gives the lock back before it sends.
ReadUnlocks(x) ==
  /\ At(x, "read")
  /\ mine' = [mine EXCEPT ![x] = cli]
  /\ RUnlock(x)
  /\ Goto(x, IF cli # None THEN "rpc" ELSE "lock")
  /\ UNCHANGED <<cli, conn, to, connectVars, worldVars>>

\* c := cli.  The lock is kept for the RPC, or given back to connect.
Read(x) ==
  /\ At(x, "read")
  /\ mine' = [mine EXCEPT ![x] = cli]
  /\ IF cli # None THEN Goto(x, "rpc") /\ UNCHANGED lockVars
     ELSE Goto(x, "lock") /\ RUnlock(x)
  /\ UNCHANGED <<cli, conn, to, connectVars, worldVars>>

\* The RPC returns in time on a connection to a server that answers ...
Returns(x) ==
  /\ At(x, "rpc") /\ conn[mine[x]] = "open" /\ server[to[mine[x]]] = "up"
  /\ mine' = [mine EXCEPT ![x] = None]
  /\ RUnlock(x)
  /\ Goto(x, "idle")
  /\ UNCHANGED <<cli, conn, to, connectVars, worldVars>>

\* ... and fails at once or by the timer on any other: Meta and heartbeat then
\* call CloseCli.
Fails(x) ==
  /\ At(x, "rpc") /\ (conn[mine[x]] # "open" \/ server[to[mine[x]]] # "up")
  /\ mine' = [mine EXCEPT ![x] = None]
  /\ RUnlock(x)
  /\ Goto(x, "failed")
  /\ UNCHANGED <<cli, conn, to, connectVars, worldVars>>

\* Under the write lock: another caller may have connected meanwhile.
Connect(x) ==
  /\ At(x, "wait") /\ Held(x)
  /\ IF cli = None THEN Goto(x, "dial") /\ UNCHANGED lockVars ELSE Unlock(x, "call")
  /\ next' = 1 /\ acm' = [a \in Addresses |-> None] /\ best' = None
  /\ UNCHANGED <<mine, cli, conn, to, worldVars>>

Dialling == Servers[next]

\* net.DialTimeout: fails if the server is down; otherwise the first connection
\* that is closed stands for the new one.
Dial(x) ==
  /\ At(x, "dial") /\ next <= Len(Servers)
  /\ IF server[Dialling] = "down"
     THEN /\ next' = next + 1
          /\ UNCHANGED <<pc, conn, to, acm>>
     ELSE \E c \in Conns :
            /\ conn[c] = "closed"
            /\ conn' = [conn EXCEPT ![c] = "open"]
            /\ to' = [to EXCEPT ![c] = Dialling]
            /\ acm' = [acm EXCEPT ![Dialling] = c]
            /\ Goto(x, "ping") /\ UNCHANGED next
  /\ UNCHANGED <<mine, lockVars, cli, best, worldVars>>

\* Server.Ping, which has no timeout: an answer, and the faster one is kept ...
PingReturns(x) ==
  /\ At(x, "ping") /\ conn[acm[Dialling]] = "open" /\ server[Dialling] = "up"
  /\ best' \in {acm[Dialling]} \cup (IF best = None THEN {} ELSE {best})
  /\ next' = next + 1
  /\ Goto(x, "dial")
  /\ UNCHANGED <<mine, lockVars, cli, conn, to, acm, worldVars>>

\* A ping that is tried again on the connection that is gone.
PingFailsRetries(x) ==
  /\ At(x, "ping") /\ conn[acm[Dialling]] = "broken"
  /\ UNCHANGED vars

\* ... or the end of the connection.
PingFails(x) ==
  /\ At(x, "ping") /\ conn[acm[Dialling]] = "broken"
  /\ next' = next + 1
  /\ Goto(x, "dial")
  /\ UNCHANGED <<mine, lockVars, cli, conn, to, acm, best, worldVars>>

\* connect that returns without closing the slower ones.
ConnectedKeeps(x) ==
  /\ At(x, "dial") /\ next > Len(Servers)
  /\ cli' = best
  /\ Unlock(x, IF best = None THEN "sleep" ELSE "call")
  /\ UNCHANGED <<mine, conn, to, connectVars, worldVars>>

\* Every connection but the one to the best server is closed.
Connected(x) ==
  /\ At(x, "dial") /\ next > Len(Servers)
  /\ conn' = [c \in Conns |-> IF c # best /\ (\E a \in Addresses : acm[a] = c)
                              THEN "closed" ELSE conn[c]]
  /\ cli' = best
  /\ Unlock(x, IF best = None THEN "sleep" ELSE "call")
  /\ UNCHANGED <<mine, to, connectVars, worldVars>>

\* The ten seconds are over.
Wakes(x) ==
  /\ At(x, "sleep")
  /\ Goto(x, "call")
  /\ UNCHANGED <<mine, lockVars, cli, conn, to, connectVars, worldVars>>

----------------------------------------------------------------------------
(* CloseCli *)

CloseCli(x) ==
  /\ At(x, "closing") /\ Held(x)
  /\ conn' = [c \in Conns |-> IF c = cli THEN "closed" ELSE conn[c]]
  /\ cli' = None
  /\ Unlock(x, "idle")
  /\ UNCHANGED <<mine, to, connectVars, worldVars>>

----------------------------------------------------------------------------
(* The specification *)

Call(x) ==
  \/ RLock(x) \/ Read(x) \/ Returns(x) \/ Fails(x) \/ Connect(x) \/ Dial(x) \/ PingReturns(x)
  \/ PingFails(x) \/ Connected(x) \/ Wakes(x) \/ CloseCli(x)

Next ==
  \/ \E a \in Addresses : ServerChanges(a)
  \/ \E x \in Callers : Begin(x) \/ Lock(x) \/ Call(x)

Spec == Init /\ [][Next]_vars

\* Goroutines that can run do, and sync.RWMutex lets no writer wait for ever.
Fairness == \A x \in Callers : WF_vars(Call(x)) /\ SF_vars(Lock(x))
LiveSpec == Spec /\ Fairness

----------------------------------------------------------------------------
(* Properties *)

Places == {"idle", "call", "blocked", "read", "rpc", "lock", "wait", "dial", "ping", "sleep",
           "failed", "closing"}

\* Every variable has its type.
TypeOK ==
  /\ pc \in [Callers -> Places]
  /\ mine \in [Callers -> Conns \cup {None}]
  /\ active \in SUBSET Callers /\ writer \in Callers \cup {None}
  /\ cli \in Conns \cup {None}
  /\ conn \in [Conns -> {"closed", "open", "broken"}]
  /\ to \in [Conns -> Addresses \cup {None}]
  /\ next \in Nat \ {0}
  /\ acm \in [Addresses -> Conns \cup {None}] /\ best \in Conns \cup {None}
  /\ server \in [Addresses -> {"up", "mute", "down"}]
  /\ faults \in 0..MaxFaults

\* "keeps CloseCli from closing the selected connection while an RPC is in
\* flight": an RPC in flight is on the current connection, which nobody has
\* closed, however many callers fail, close and connect meanwhile.
InFlightIsOpen ==
  \A x \in Callers : At(x, "rpc") => mine[x] = cli /\ cli # None /\ conn[cli] # "closed"

\* No connection is left open that nobody will close: one that is not closed is
\* the current one, or one of the connect under way.
Connecting == \E x \in Callers : At(x, "dial") \/ At(x, "ping")
NoneIsLeaked ==
  \A c \in Conns : conn[c] # "closed" =>
    c = cli \/ (Connecting /\ \E a \in Addresses : acm[a] = c)

\* Once the servers are well for good, calls return and, from some time on, none
\* fails: stale connections are given up, and a late CloseCli does no lasting harm.
AllUp == \A a \in Addresses : server[a] = "up"
CallsRecover ==
  <>[]AllUp => /\ <>[](\A x \in Callers : ~At(x, "failed"))
               /\ \A x \in Callers : []<>At(x, "idle")

----------------------------------------------------------------------------
(* What makes them inductive *)

\* Who holds the lock, or has asked to write, is told by where they are; while a
\* caller connects nobody reads and there is no current connection.
LockInv ==
  /\ active = {x \in Callers : At(x, "read") \/ At(x, "rpc")}
  /\ \A x \in Callers : writer = x <=> pc[x] \in {"wait", "dial", "ping", "closing"}
  /\ Connecting => active = {} /\ cli = None

\* The current connection is not closed, nor are those of a connect under way,
\* of which there is at most one for each server dialled so far.
ConnInv ==
  /\ cli # None => conn[cli] # "closed"
  /\ Connecting =>
       /\ best # None => \E a \in Addresses : acm[a] = best
       /\ \A a \in Addresses : acm[a] # None => conn[acm[a]] # "closed"
       /\ \A n \in DOMAIN Servers : n > next => acm[Servers[n]] = None
  /\ \A x \in Callers :
       /\ At(x, "dial") /\ next <= Len(Servers) => acm[Dialling] = None
       /\ At(x, "ping") => next <= Len(Servers) /\ acm[Dialling] # None

ClientInv == TypeOK /\ LockInv /\ ConnInv /\ InFlightIsOpen /\ NoneIsLeaked
=============================================================================
