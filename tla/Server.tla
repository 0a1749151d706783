------------------------------- MODULE Server -------------------------------
(***************************************************************************)
(* The life of the daemon: Server.Run (internal/wgipamd/server.go) opening *)
(* a store and starting a wg-dynamic server for each interface, the        *)
(* goroutines of its errgroup, and the shutdown that a signal or a failing *)
(* goroutine begins.  The wg-dynamic server's Serve and Close are those of *)
(* the wgdynamic package: Serve accepts connections and counts them in a   *)
(* WaitGroup, Close closes the listener and waits for the count to drop to *)
(* zero, holding the mutex that Serve needs to count another one.          *)
(*                                                                         *)
(* A store is only open or closed here, and a request is only in flight or *)
(* not.  The debug HTTP server is left out but for its failing to start:   *)
(* its goroutines end as the others do and its requests only read.         *)
(***************************************************************************)
EXTENDS Naturals

CONSTANTS
  MaxInterfaces,  \* bound on the number of configured interfaces
  Conns           \* the connections clients make; bounds them

ASSUME ServerAssumption == MaxInterfaces \in Nat \ {0}

Interfaces == 1 .. MaxInterfaces

VARIABLES
  n,       \* the number of configured interfaces
  proc,    \* the process: "up", "exited", or why it panicked
  run, k,  \* where Run is, and the interface it is starting
  ctx,     \* is the errgroup's context canceled?
  store,   \* each interface's store
  lis,     \* each interface's listener
  serving, \* has Serve stored the listener, so that Close finds it?
  closer, serve, purge,  \* each interface's three goroutines
  conn     \* each connection: the interface and how far it got

vars == <<n, proc, run, k, ctx, store, lis, serving, closer, serve, purge, conn>>

Handle == {"none", "open", "closed"}
Places == {"new", "dialed", "accepted", "reading", "using", "done"}

\* The connections of interface i in state at, those that the WaitGroup
\* counts, and those that Accept has returned and that are not done.
ConnsAt(i, at) == {c \in Conns : conn[c] = [ifi |-> i, at |-> at]}
Active(i) == ConnsAt(i, "reading") \cup ConnsAt(i, "using")
Accepted(i) == ConnsAt(i, "accepted") \cup Active(i)

\* Close holds the server's mutex while it waits.
MutexFree(i) == closer[i] # "closing"

Started == {i \in Interfaces : closer[i] # "none"}

Init ==
  /\ n \in Interfaces
  /\ proc = "up"
  /\ run = "open" /\ k = 1
  /\ ctx = FALSE
  /\ store = [i \in Interfaces |-> "none"]
  /\ lis = [i \in Interfaces |-> "none"]
  /\ serving = [i \in Interfaces |-> FALSE]
  /\ closer = [i \in Interfaces |-> "none"]
  /\ serve = [i \in Interfaces |-> "none"]
  /\ purge = [i \in Interfaces |-> "none"]
  /\ conn = [c \in Conns |-> [ifi |-> 1, at |-> "new"]]

\* Nothing runs any more once the process has ended.
RunAt(places) == proc = "up" /\ run \in places
At(place, here) == proc = "up" /\ place = here

-----------------------------------------------------------------------------
\* Server.Run and runServer.

\* Any failure to start makes Run return, by way of its deferred Closes.
StartFails ==
  /\ RunAt({"open", "listen", "configure", "debug"})
  /\ run = "configure" => k = 1
  /\ run' = "abort"
  /\ UNCHANGED <<n, proc, k, ctx, store, lis, serving, closer, serve, purge, conn>>

OpenStore ==
  /\ RunAt({"open"})
  /\ run' = "listen"
  /\ store' = [store EXCEPT ![k] = "open"]
  /\ UNCHANGED <<n, proc, k, ctx, lis, serving, closer, serve, purge, conn>>

Listen ==
  /\ RunAt({"listen"})
  /\ run' = "configure"
  /\ lis' = [lis EXCEPT ![k] = "open"]
  /\ UNCHANGED <<n, proc, k, ctx, store, serving, closer, serve, purge, conn>>

\* The gauges of IPStoreMetrics are registered once per interface in the same
\* registry, under the same names: MustRegister panics the second time.
RegisterTwice ==
  /\ RunAt({"configure"})
  /\ k > 1
  /\ proc' = "duplicate metrics"
  /\ UNCHANGED <<n, run, k, ctx, store, lis, serving, closer, serve, purge, conn>>

\* Metrics, allocator and handler are set up; three goroutines start.
StartServer ==
  /\ RunAt({"configure"})
  /\ k = 1
  /\ closer' = [closer EXCEPT ![k] = "wait"]
  /\ serve' = [serve EXCEPT ![k] = "init"]
  /\ purge' = [purge EXCEPT ![k] = "purge"]
  /\ IF k < n THEN run' = "open" /\ k' = k + 1
              ELSE run' = "debug" /\ UNCHANGED k
  /\ UNCHANGED <<n, proc, ctx, store, lis, serving, conn>>

\* runDebug succeeds, or has nothing to do.
Ready ==
  /\ RunAt({"debug"})
  /\ run' = "wait"
  /\ UNCHANGED <<n, proc, k, ctx, store, lis, serving, closer, serve, purge, conn>>

\* Mutant: the purge loop is not waited for.
WaitButPurge ==
  /\ RunAt({"wait"})
  /\ \A i \in Started : closer[i] = "done" /\ serve[i] = "done"
  /\ run' = "close"
  /\ ctx' = TRUE
  /\ UNCHANGED <<n, proc, k, store, lis, serving, closer, serve, purge, conn>>

\* eg.Wait returns when every goroutine has, and cancels the context.
Wait ==
  /\ RunAt({"wait"})
  /\ \A i \in Started :
       closer[i] = "done" /\ serve[i] = "done" /\ purge[i] = "done"
  /\ run' = "close"
  /\ ctx' = TRUE
  /\ UNCHANGED <<n, proc, k, store, lis, serving, closer, serve, purge, conn>>

\* The deferred Closes, the last store opened first.
CloseStore ==
  /\ RunAt({"close", "abort"})
  /\ \E i \in Interfaces :
       /\ store[i] = "open"
       /\ \A j \in Interfaces : j > i => store[j] # "open"
       /\ store' = [store EXCEPT ![i] = "closed"]
  /\ UNCHANGED <<n, proc, run, k, ctx, lis, serving, closer, serve, purge, conn>>

\* Run returns and so does main, or log.Fatalf ends the process.
Exit ==
  /\ RunAt({"close", "abort"})
  /\ \A i \in Interfaces : store[i] # "open"
  /\ proc' = "exited"
  /\ UNCHANGED <<n, run, k, ctx, store, lis, serving, closer, serve, purge, conn>>

RunStep ==
  \/ OpenStore \/ Listen \/ RegisterTwice \/ StartServer \/ Ready
  \/ Wait \/ CloseStore \/ Exit

\* A signal cancels the parent context.
Signal ==
  /\ At(ctx, FALSE)
  /\ ctx' = TRUE
  /\ UNCHANGED <<n, proc, run, k, store, lis, serving, closer, serve, purge, conn>>

-----------------------------------------------------------------------------
\* The wg-dynamic server.

StoreListener(i) ==
  /\ At(serve[i], "init")
  /\ MutexFree(i)
  /\ serving' = [serving EXCEPT ![i] = TRUE]
  /\ serve' = [serve EXCEPT ![i] = "accept"]
  /\ UNCHANGED <<n, proc, run, k, ctx, store, lis, closer, purge, conn>>

\* Mutant: the new goroutine calls wg.Add, and Serve accepts again.
AcceptSpawns(i) ==
  /\ At(serve[i], "accept")
  /\ lis[i] = "open"
  /\ \E c \in ConnsAt(i, "dialed") : conn' = [conn EXCEPT ![c].at = "accepted"]
  /\ UNCHANGED <<n, proc, run, k, ctx, store, lis, serving, closer, serve, purge>>

Accept(i) ==
  /\ At(serve[i], "accept")
  /\ lis[i] = "open"
  /\ \E c \in ConnsAt(i, "dialed") : conn' = [conn EXCEPT ![c].at = "accepted"]
  /\ serve' = [serve EXCEPT ![i] = "count"]
  /\ UNCHANGED <<n, proc, run, k, ctx, store, lis, serving, closer, purge>>

\* wg.Add under the mutex, and the goroutine that handles the request.
Count(i) ==
  /\ At(serve[i], "count")
  /\ MutexFree(i)
  /\ \E c \in ConnsAt(i, "accepted") : conn' = [conn EXCEPT ![c].at = "reading"]
  /\ serve' = [serve EXCEPT ![i] = "accept"]
  /\ UNCHANGED <<n, proc, run, k, ctx, store, lis, serving, closer, purge>>

\* Accept on the closed listener: serve() turns its error into nil.
ServeReturns(i) ==
  /\ At(serve[i], "accept")
  /\ lis[i] = "closed"
  /\ serve' = [serve EXCEPT ![i] = "done"]
  /\ UNCHANGED <<n, proc, run, k, ctx, store, lis, serving, closer, purge, conn>>

\* Mutant: the failing server does not cancel the others.
ServeFailsAlone(i) ==
  /\ At(serve[i], "accept")
  /\ lis[i] = "open"
  /\ serve' = [serve EXCEPT ![i] = "done"]
  /\ UNCHANGED <<n, proc, run, k, ctx, store, lis, serving, closer, purge, conn>>

\* Any other error of Accept ends Serve and cancels the errgroup.
ServeFails(i) ==
  /\ At(serve[i], "accept")
  /\ lis[i] = "open"
  /\ serve' = [serve EXCEPT ![i] = "done"]
  /\ ctx' = TRUE
  /\ UNCHANGED <<n, proc, run, k, store, lis, serving, closer, purge, conn>>

\* Close before Serve has stored the listener calls Close on a nil one.
CloseNil(i) ==
  /\ At(closer[i], "wait")
  /\ ctx
  /\ ~serving[i]
  /\ proc' = "nil listener"
  /\ UNCHANGED <<n, run, k, ctx, store, lis, serving, closer, serve, purge, conn>>

Close(i) ==
  /\ At(closer[i], "wait")
  /\ ctx
  /\ serving[i]
  /\ lis' = [lis EXCEPT ![i] = "closed"]
  /\ closer' = [closer EXCEPT ![i] = "closing"]
  /\ UNCHANGED <<n, proc, run, k, ctx, store, serving, serve, purge, conn>>

\* Mutant: Close does not wait for the requests.
CloseAtOnce(i) ==
  /\ At(closer[i], "closing")
  /\ closer' = [closer EXCEPT ![i] = "done"]
  /\ UNCHANGED <<n, proc, run, k, ctx, store, lis, serving, serve, purge, conn>>

\* wg.Wait returns, then Close.
CloseReturns(i) ==
  /\ At(closer[i], "closing")
  /\ Active(i) = {}
  /\ closer' = [closer EXCEPT ![i] = "done"]
  /\ UNCHANGED <<n, proc, run, k, ctx, store, lis, serving, serve, purge, conn>>

-----------------------------------------------------------------------------
\* The purge loop.

Purge(i) ==
  /\ At(purge[i], "purge")
  /\ purge' = [purge EXCEPT ![i] = "select"]
  /\ UNCHANGED <<n, proc, run, k, ctx, store, lis, serving, closer, serve, conn>>

PurgeAgain(i) ==
  /\ At(purge[i], "select")
  /\ purge' = [purge EXCEPT ![i] = "purge"]
  /\ UNCHANGED <<n, proc, run, k, ctx, store, lis, serving, closer, serve, conn>>

PurgeReturns(i) ==
  /\ At(purge[i], "select")
  /\ ctx
  /\ purge' = [purge EXCEPT ![i] = "done"]
  /\ UNCHANGED <<n, proc, run, k, ctx, store, lis, serving, closer, serve, conn>>

-----------------------------------------------------------------------------
\* Clients, and the goroutines that handle their requests.

Dial(c) ==
  /\ At(conn[c].at, "new")
  /\ \E i \in Interfaces :
       /\ lis[i] = "open"
       /\ conn' = [conn EXCEPT ![c] = [ifi |-> i, at |-> "dialed"]]
  /\ UNCHANGED <<n, proc, run, k, ctx, store, lis, serving, closer, serve, purge>>

\* The client sends its request, or hangs up; handle sets no deadline.
Send(c) ==
  /\ At(conn[c].at, "reading")
  /\ \E s \in {"using", "done"} : conn' = [conn EXCEPT ![c].at = s]
  /\ UNCHANGED <<n, proc, run, k, ctx, store, lis, serving, closer, serve, purge>>

\* RequestIP has used the store and answered; the connection is closed.
Answer(c) ==
  /\ At(conn[c].at, "using")
  /\ conn' = [conn EXCEPT ![c].at = "done"]
  /\ UNCHANGED <<n, proc, run, k, ctx, store, lis, serving, closer, serve, purge>>

ServerStep(i) ==
  \/ StoreListener(i) \/ Accept(i) \/ Count(i) \/ ServeReturns(i)

CloserStep(i) == CloseNil(i) \/ Close(i) \/ CloseReturns(i)

Next ==
  \/ RunStep \/ StartFails \/ Signal
  \/ \E i \in Interfaces :
       \/ ServerStep(i) \/ ServeFails(i) \/ CloserStep(i)
       \/ Purge(i) \/ PurgeAgain(i) \/ PurgeReturns(i)
  \/ \E c \in Conns : Dial(c) \/ Send(c) \/ Answer(c)

Spec == Init /\ [][Next]_vars

\* Goroutines that can run do.  With the context canceled and a tick waiting,
\* select picks either at random: it picks the context in the end.
GoFairness ==
  /\ WF_vars(RunStep)
  /\ \A i \in Interfaces :
       /\ WF_vars(ServerStep(i)) /\ WF_vars(CloserStep(i))
       /\ WF_vars(Purge(i)) /\ SF_vars(PurgeReturns(i))
  /\ \A c \in Conns : WF_vars(Answer(c))

\* Clients that connect send a request or hang up.
ClientFairness == \A c \in Conns : WF_vars(Send(c))

FairSpec == Spec /\ GoFairness /\ ClientFairness

-----------------------------------------------------------------------------

Types ==
  /\ n \in Interfaces
  /\ proc \in {"up", "exited", "duplicate metrics", "nil listener"}
  /\ run \in {"open", "listen", "configure", "debug", "wait", "close", "abort"}
  /\ k \in Interfaces
  /\ ctx \in BOOLEAN
  /\ store \in [Interfaces -> Handle]
  /\ lis \in [Interfaces -> Handle]
  /\ serving \in [Interfaces -> BOOLEAN]
  /\ closer \in [Interfaces -> {"none", "wait", "closing", "done"}]
  /\ serve \in [Interfaces -> {"none", "init", "accept", "count", "done"}]
  /\ purge \in [Interfaces -> {"none", "purge", "select", "done"}]
  /\ conn \in [Conns -> [ifi : Interfaces, at : Places]]

\* Serve has one connection in hand, between Accept and wg.Add.
OneInHand ==
  \A i \in Interfaces : \A c \in ConnsAt(i, "accepted") :
    /\ serve[i] = "count"
    /\ \A d \in ConnsAt(i, "accepted") : c = d

\* The variables have their types, and a connection that Accept has returned
\* and the WaitGroup does not count is in the hands of Serve (vendored
\* wgdynamic-go/server.go:67-81).
TypeOK == Types /\ OneInHand

\* Close ends every request but the one that Accept had already returned when
\* the listener was closed: the mutex keeps it from being counted until Close
\* has returned, and it runs while the daemon goes down (vendored
\* wgdynamic-go/server.go:74-78, 94-99).
AtMostOneLate ==
  \A i \in Interfaces : closer[i] = "done" =>
    \A c, d \in Accepted(i) : c = d

\* What the comment on Close says: "Close closes the server listener and waits
\* for all requests to complete." (vendored wgdynamic-go/server.go:93).
CloseWaitsForAll ==
  \A i \in Interfaces : closer[i] = "done" => Active(i) = {}

\* Unless starting has failed, no store is closed while its purge loop runs or
\* its server still accepts requests (server.go:110-115).
StoreOutlivesLoops ==
  \A i \in Interfaces : store[i] = "closed" /\ run # "abort" =>
    closer[i] = "done" /\ serve[i] = "done" /\ purge[i] = "done"

\* Once told to stop, or once something it needs has failed, the daemon ends:
\* no part lives on without the others, if clients do not stay silent.
Stops ==
  (ctx \/ run = "abort" \/ \E i \in Interfaces : serve[i] = "done") ~> proc # "up"

=============================================================================
