---------------------------- MODULE ServerProofs ----------------------------
(***************************************************************************)
(* Shutdown is orderly for any number of interfaces and connections: after *)
(* Close at most one late request is left, and stores outlive the loops    *)
(* that use them.  Two invariants of their own parts of the state make     *)
(* them inductive: Life says how far start-up and shutdown have got, Late  *)
(* which connections Serve holds.                                          *)
(***************************************************************************)
EXTENDS Server, TLAPS

Starting == {"open", "listen", "configure"}

\* Interfaces from k on have no goroutines yet, those after k no store, and
\* none is stored for k before its turn.
NotYet ==
  run \in Starting =>
    /\ \A j \in Interfaces : j >= k => closer[j] = "none"
    /\ \A j \in Interfaces : j > k => store[j] = "none"
    /\ run = "open" => store[k] = "none"

\* A store has its goroutines, is being given them, or its start has failed.
StoresHeld ==
  \A j \in Interfaces : store[j] # "none" =>
    \/ closer[j] # "none"
    \/ j = k /\ run \in {"listen", "configure"}
    \/ run = "abort"

\* Stores are closed only by a Run that waited for everything, or gave up.
Stopped ==
  /\ (\E j \in Interfaces : store[j] = "closed") => run \in {"close", "abort"}
  /\ run = "close" =>
       \A i \in Started :
         closer[i] = "done" /\ serve[i] = "done" /\ purge[i] = "done"

Life == NotYet /\ StoresHeld /\ Stopped

\* The goroutines start together, and Close has closed the listener.
Closing ==
  \A i \in Interfaces :
    /\ closer[i] = "none" => serve[i] = "none"
    /\ closer[i] \in {"closing", "done"} => lis[i] = "closed"

Late == Closing /\ OneInHand /\ AtMostOneLate

IInv == Types /\ Life /\ Late

LEMMA OneIsInterface == 1 \in Interfaces
  BY ServerAssumption, SMT DEF Interfaces

LEMMA InitIInv == Init => IInv
  <1> SUFFICES ASSUME Init PROVE IInv
    OBVIOUS
  <1>1. Types
    BY OneIsInterface DEF Init, Types, Handle, Places
  <1>2. Life
    BY OneIsInterface DEF Init, Life, NotYet, StoresHeld, Stopped, Started
  <1>3. Late
    BY DEF Init, Late, Closing, OneInHand, AtMostOneLate, ConnsAt, Accepted, Active
  <1> QED
    BY <1>1, <1>2, <1>3 DEF IInv

\* What Next does, action by action.
LEMMA NextCases ==
  ASSUME Next
  PROVE  \/ StartFails \/ OpenStore \/ Listen \/ RegisterTwice \/ StartServer
         \/ Ready \/ Wait \/ CloseStore \/ Exit \/ Signal
         \/ \E i \in Interfaces :
              \/ StoreListener(i) \/ Accept(i) \/ Count(i) \/ ServeReturns(i)
              \/ ServeFails(i) \/ CloseNil(i) \/ Close(i) \/ CloseReturns(i)
              \/ Purge(i) \/ PurgeAgain(i) \/ PurgeReturns(i)
         \/ \E c \in Conns : Dial(c) \/ Send(c) \/ Answer(c)
  BY DEF Next, RunStep, ServerStep, CloserStep

-----------------------------------------------------------------------------

ConnType == [Conns -> [ifi : Interfaces, at : Places]]

\* A connection that moves on stays with its interface, the others stay put.
LEMMA ConnMoves ==
  ASSUME conn \in ConnType, NEW c \in Conns, NEW s \in Places,
         conn' = [conn EXCEPT ![c].at = s]
  PROVE  /\ conn' \in ConnType
         /\ conn'[c] = [ifi |-> conn[c].ifi, at |-> s]
         /\ \A d \in Conns : d # c => conn'[d] = conn[d]
  <1>1. conn[c] = [ifi |-> conn[c].ifi, at |-> conn[c].at]
    BY DEF ConnType
  <1>2. [conn[c] EXCEPT !.at = s] = [ifi |-> conn[c].ifi, at |-> s]
    BY <1>1
  <1>3. conn' = [conn EXCEPT ![c] = [ifi |-> conn[c].ifi, at |-> s]]
    BY <1>2
  <1> QED
    BY <1>3 DEF ConnType

LEMMA NextTypes == ASSUME Types, Next PROVE Types'
  <1> USE DEF Types
  <1>1. CASE StartFails
    BY <1>1 DEF StartFails
  <1>2. CASE Ready \/ Exit
    BY <1>2 DEF Ready, Exit
  <1>3. CASE Wait
    BY <1>3 DEF Wait
  <1>4. CASE Signal \/ RegisterTwice
    BY <1>4 DEF Signal, RegisterTwice
  <1>5. CASE OpenStore
    BY <1>5 DEF OpenStore, Handle
  <1>6. CASE Listen
    BY <1>6 DEF Listen, Handle
  <1>7. CASE CloseStore
    BY <1>7 DEF CloseStore, Handle
  <1>8. CASE StartServer
    <2>1. k' \in Interfaces
      <3>1. (k < n /\ k' = k + 1) \/ k' = k
        BY <1>8 DEF StartServer
      <3>2. k \in Interfaces /\ n \in Interfaces
        OBVIOUS
      <3> HIDE DEF Types
      <3> QED
        BY <3>1, <3>2, ServerAssumption, SMT DEF Interfaces
    <2>2. /\ run' \in {"open", "debug"}
          /\ closer' = [closer EXCEPT ![k] = "wait"]
          /\ serve' = [serve EXCEPT ![k] = "init"]
          /\ purge' = [purge EXCEPT ![k] = "purge"]
          /\ UNCHANGED <<n, proc, ctx, store, lis, serving, conn>>
      BY <1>8 DEF StartServer
    <2> QED
      BY <2>1, <2>2
  <1>9. ASSUME NEW i \in Interfaces, StoreListener(i) PROVE Types'
    BY <1>9 DEF StoreListener
  <1>10. ASSUME NEW i \in Interfaces, Accept(i) \/ Count(i) PROVE Types'
    <2>1. /\ serve' \in [Interfaces -> {"none", "init", "accept", "count", "done"}]
          /\ UNCHANGED <<n, proc, run, k, ctx, store, lis, serving, closer, purge>>
      BY <1>10 DEF Accept, Count
    <2>2. conn' \in [Conns -> [ifi : Interfaces, at : Places]]
      <3>1. \E c \in Conns, s \in Places : conn' = [conn EXCEPT ![c].at = s]
        BY <1>10 DEF Accept, Count, ConnsAt, Places
      <3> QED
        BY <3>1, ConnMoves DEF ConnType
    <2> QED
      BY <2>1, <2>2
  <1>11. ASSUME NEW i \in Interfaces, ServeReturns(i) \/ ServeFails(i)
         PROVE  Types'
    BY <1>11 DEF ServeReturns, ServeFails
  <1>12. ASSUME NEW i \in Interfaces, CloseNil(i) \/ CloseReturns(i)
         PROVE  Types'
    BY <1>12 DEF CloseNil, CloseReturns
  <1>13. ASSUME NEW i \in Interfaces, Close(i) PROVE Types'
    BY <1>13 DEF Close, Handle
  <1>14. ASSUME NEW i \in Interfaces,
                Purge(i) \/ PurgeAgain(i) \/ PurgeReturns(i)
         PROVE  Types'
    BY <1>14 DEF Purge, PurgeAgain, PurgeReturns
  <1>15. ASSUME NEW c \in Conns, Dial(c) \/ Send(c) \/ Answer(c) PROVE Types'
    <2>1. conn' \in [Conns -> [ifi : Interfaces, at : Places]]
      <3>1. CASE Dial(c)
        <4>1. PICK i \in Interfaces :
                 conn' = [conn EXCEPT ![c] = [ifi |-> i, at |-> "dialed"]]
          BY <3>1 DEF Dial
        <4>2. [ifi |-> i, at |-> "dialed"] \in [ifi : Interfaces, at : Places]
          BY DEF Places
        <4> QED
          BY <4>1, <4>2
      <3>2. CASE Send(c) \/ Answer(c)
        <4>1. \E s \in Places : conn' = [conn EXCEPT ![c].at = s]
          BY <3>2 DEF Send, Answer, Places
        <4> QED
          BY <4>1, ConnMoves DEF ConnType
      <3> QED
        BY <1>15, <3>1, <3>2
    <2>2. UNCHANGED <<n, proc, run, k, ctx, store, lis, serving, closer, serve,
                      purge>>
      BY <1>15 DEF Dial, Send, Answer
    <2> QED
      BY <2>1, <2>2
  <1> QED
    BY <1>1, <1>2, <1>3, <1>4, <1>5, <1>6, <1>7, <1>8, <1>9, <1>10, <1>11,
       <1>12, <1>13, <1>14, <1>15, NextCases

-----------------------------------------------------------------------------
\* Life: start-up and shutdown.

\* Life is about these variables only.
lifeVars == <<run, k, store, closer, serve, purge>>

LEMMA LifeKept == ASSUME Life, UNCHANGED lifeVars PROVE Life'
  BY DEF Life, lifeVars, NotYet, StoresHeld, Stopped, Started

\* A step of a goroutine: those that have not started do not, and those that
\* have ended stay so.
LEMMA LifeOfGoroutine ==
  ASSUME Life, UNCHANGED <<run, k, store>>,
         \A i \in Interfaces :
           /\ closer'[i] = "none" <=> closer[i] = "none"
           /\ closer[i] = "done" => closer'[i] = "done"
           /\ serve[i] = "done" => serve'[i] = "done"
           /\ purge[i] = "done" => purge'[i] = "done"
  PROVE  Life'
  <1>1. NotYet'
    BY DEF Life, NotYet
  <1>2. StoresHeld'
    BY DEF Life, StoresHeld
  <1>3. Stopped'
    BY DEF Life, Stopped, Started
  <1> QED
    BY <1>1, <1>2, <1>3 DEF Life

LEMMA StartServerLife == ASSUME Types, Life, StartServer PROVE Life'
  <1>1. /\ run = "configure" /\ store' = store
        /\ closer' = [closer EXCEPT ![k] = "wait"]
        /\ (k < n /\ run' = "open" /\ k' = k + 1) \/ run' = "debug"
    BY DEF StartServer, RunAt
  <1>2. /\ \A j \in Interfaces : j >= k => closer[j] = "none"
        /\ \A j \in Interfaces : j > k => store[j] = "none"
    BY <1>1 DEF Life, NotYet, Starting
  <1>3. NotYet'
    <2>1. CASE run' = "debug"
      BY <2>1 DEF NotYet, Starting
    <2>2. CASE k < n /\ run' = "open" /\ k' = k + 1
      <3>1. k \in Nat /\ k' \in Interfaces /\ k' > k
        <4>1. k \in Interfaces /\ n \in Interfaces
          BY DEF Types
        <4> QED
          BY <2>2, <4>1, ServerAssumption, SMT DEF Interfaces
      <3>2. ASSUME NEW j \in Interfaces, j >= k' PROVE j > k /\ j >= k /\ j # k
        BY <2>2, <3>1, <3>2, SMT DEF Interfaces
      <3>3. ASSUME NEW j \in Interfaces, j > k' PROVE j >= k'
        BY <3>1, <3>3, SMT DEF Interfaces
      <3>4. k' >= k'
        BY <3>1, SMT DEF Interfaces
      <3>5. ASSUME NEW j \in Interfaces, j >= k'
            PROVE  closer'[j] = "none" /\ store'[j] = "none"
        <4>1. closer'[j] = closer[j]
          BY <1>1, <3>2, <3>5 DEF Types
        <4> QED
          BY <1>1, <1>2, <3>2, <3>5, <4>1
      <3> QED
        BY <3>1, <3>3, <3>4, <3>5 DEF NotYet
    <2> QED
      BY <1>1, <2>1, <2>2
  <1>4. StoresHeld'
    <2> SUFFICES ASSUME NEW j \in Interfaces, store[j] # "none"
                 PROVE  closer'[j] # "none"
      BY <1>1 DEF StoresHeld
    <2>1. closer[j] # "none" \/ j = k
      BY <1>1 DEF Life, StoresHeld
    <2> QED
      BY <1>1, <2>1 DEF Types
  <1>5. Stopped'
    BY <1>1 DEF Life, Stopped
  <1> QED
    BY <1>3, <1>4, <1>5 DEF Life

LEMMA NextLife == ASSUME Types, Life, Closing, Next PROVE Life'
  <1>1. CASE Exit \/ Signal \/ RegisterTwice
    BY <1>1, LifeKept DEF Exit, Signal, RegisterTwice, lifeVars
  <1>2. CASE StartFails \/ Ready
    <2>1. /\ run \in Starting \cup {"debug"} /\ run' \in {"abort", "wait"}
          /\ run' = "wait" => run = "debug"
          /\ UNCHANGED <<k, store, closer, serve, purge>>
      BY <1>2 DEF StartFails, Ready, RunAt, Starting
    <2> QED
      BY <2>1 DEF Life, NotYet, StoresHeld, Stopped, Started, Starting
  <1>3. CASE OpenStore
    <2>1. /\ run = "open" /\ run' = "listen"
          /\ store' = [store EXCEPT ![k] = "open"]
          /\ UNCHANGED <<k, closer, serve, purge>>
      BY <1>3 DEF OpenStore, RunAt
    <2>2. ASSUME NEW j \in Interfaces, j > k PROVE j # k
      <3>1. k \in Interfaces
        BY DEF Types
      <3> QED
        BY <2>2, <3>1, ServerAssumption, SMT DEF Interfaces
    <2>3. NotYet'
      BY <2>1, <2>2 DEF Life, NotYet, Starting, Types
    <2>4. StoresHeld'
      BY <2>1 DEF Life, StoresHeld, Types
    <2>5. Stopped'
      BY <2>1 DEF Life, Stopped, Types
    <2> QED
      BY <2>3, <2>4, <2>5 DEF Life
  <1>4. CASE Listen
    <2>1. /\ run = "listen" /\ run' = "configure"
          /\ UNCHANGED <<k, store, closer, serve, purge>>
      BY <1>4 DEF Listen, RunAt
    <2> QED
      BY <2>1 DEF Life, NotYet, StoresHeld, Stopped, Started, Starting
  <1>5. CASE StartServer
    BY <1>5, StartServerLife
  <1>6. CASE Wait
    <2>1. /\ run = "wait" /\ run' = "close"
          /\ \A i \in Started :
               closer[i] = "done" /\ serve[i] = "done" /\ purge[i] = "done"
          /\ UNCHANGED <<k, store, closer, serve, purge>>
      BY <1>6 DEF Wait, RunAt
    <2> QED
      BY <2>1 DEF Life, NotYet, StoresHeld, Stopped, Started, Starting
  <1>7. CASE CloseStore
    <2>1. /\ run \in {"close", "abort"}
          /\ UNCHANGED <<run, k, closer, serve, purge>>
      BY <1>7 DEF CloseStore, RunAt
    <2>2. ASSUME NEW j \in Interfaces, store'[j] # "none" PROVE store[j] # "none"
      BY <1>7, <2>2 DEF CloseStore, Types
    <2>3. NotYet' /\ Stopped'
      BY <2>1 DEF Life, NotYet, Stopped, Started, Starting
    <2>4. StoresHeld'
      BY <2>1, <2>2 DEF Life, StoresHeld
    <2> QED
      BY <2>3, <2>4 DEF Life
  <1>8. ASSUME NEW i \in Interfaces, StoreListener(i) \/ Accept(i) \/ Count(i)
        PROVE  Life'
    BY <1>8, LifeOfGoroutine DEF StoreListener, Accept, Count, At, Types
  <1>9. ASSUME NEW i \in Interfaces, ServeReturns(i) \/ ServeFails(i)
        PROVE  Life'
    BY <1>9, LifeOfGoroutine DEF ServeReturns, ServeFails, At, Types
  <1>10. ASSUME NEW i \in Interfaces, CloseNil(i) PROVE Life'
    BY <1>10, LifeKept DEF CloseNil, lifeVars
  <1>11. ASSUME NEW i \in Interfaces, Close(i) \/ CloseReturns(i) PROVE Life'
    BY <1>11, LifeOfGoroutine DEF Close, CloseReturns, At, Types
  <1>12. ASSUME NEW i \in Interfaces, Purge(i) \/ PurgeAgain(i) \/ PurgeReturns(i)
         PROVE  Life'
    BY <1>12, LifeOfGoroutine DEF Purge, PurgeAgain, PurgeReturns, At, Types
  <1>13. ASSUME NEW c \in Conns, Dial(c) \/ Send(c) \/ Answer(c) PROVE Life'
    BY <1>13, LifeKept DEF Dial, Send, Answer, lifeVars
  <1> QED
    BY <1>1, <1>2, <1>3, <1>4, <1>5, <1>6, <1>7, <1>8, <1>9, <1>10, <1>11,
       <1>12, <1>13, NextCases

-----------------------------------------------------------------------------
\* Late: the connections that Serve holds.

\* No interface holds a connection it did not hold.
NoneNew ==
  \A i \in Interfaces :
    /\ ConnsAt(i, "accepted")' \subseteq ConnsAt(i, "accepted")
    /\ Accepted(i)' \subseteq Accepted(i)

LEMMA SameConns == ASSUME conn' = conn PROVE NoneNew
  BY DEF NoneNew, ConnsAt, Accepted, Active

\* A connection that is done, or goes from one place that counts to a later
\* one, is not a new one.
LEMMA MovesOn ==
  ASSUME conn \in ConnType, NEW c \in Conns, NEW s \in {"reading", "using", "done"},
         s # "done" => conn[c].at \in {"accepted", "reading", "using"},
         conn' = [conn EXCEPT ![c].at = s]
  PROVE  NoneNew
  <1>1. /\ conn'[c] = [ifi |-> conn[c].ifi, at |-> s]
        /\ \A d \in Conns : d # c => conn'[d] = conn[d]
    <2>1. s \in Places
      BY DEF Places
    <2> QED
      BY <2>1, ConnMoves
  <1>2. conn[c] = [ifi |-> conn[c].ifi, at |-> conn[c].at]
    BY DEF ConnType
  <1>3. ASSUME NEW i \in Interfaces
        PROVE  ConnsAt(i, "accepted")' \subseteq ConnsAt(i, "accepted")
    BY <1>1 DEF ConnsAt
  <1>4. ASSUME NEW i \in Interfaces PROVE Accepted(i)' \subseteq Accepted(i)
    <2> SUFFICES ASSUME NEW d \in Accepted(i)' PROVE d \in Accepted(i)
      OBVIOUS
    <2>1. /\ d \in Conns
          /\ \E at \in {"accepted", "reading", "using"} :
               conn'[d] = [ifi |-> i, at |-> at]
      BY DEF Accepted, Active, ConnsAt
    <2>2. \E at \in {"accepted", "reading", "using"} :
            conn[d] = [ifi |-> i, at |-> at]
      <3>1. CASE d # c
        BY <1>1, <2>1, <3>1
      <3>2. CASE d = c
        <4>1. conn[c].ifi = i /\ s # "done"
          BY <1>1, <2>1, <3>2
        <4> QED
          BY <1>2, <3>2, <4>1
      <3> QED
        BY <3>1, <3>2
    <2> QED
      BY <2>1, <2>2 DEF Accepted, Active, ConnsAt
  <1> QED
    BY <1>3, <1>4 DEF NoneNew

\* Late survives a step that accepts nothing and lets no Close return.
LEMMA LateKept ==
  ASSUME Late, Closing', NoneNew,
         \A i \in Interfaces :
           /\ closer'[i] = "done" => closer[i] = "done"
           /\ serve[i] = "count" =>
                serve'[i] = "count" \/ ConnsAt(i, "accepted")' = {}
  PROVE  Late'
  <1>1. OneInHand'
    BY DEF Late, OneInHand, NoneNew
  <1>2. AtMostOneLate'
    BY DEF Late, AtMostOneLate, NoneNew
  <1> QED
    BY <1>1, <1>2 DEF Late

LEMMA AcceptLate ==
  ASSUME Types, Late, NEW i \in Interfaces, Accept(i) PROVE Late'
  <1>1. /\ serve[i] = "accept" /\ lis[i] = "open"
        /\ serve' = [serve EXCEPT ![i] = "count"]
        /\ UNCHANGED <<lis, closer>>
    BY DEF Accept, At
  <1>2. PICK c \in ConnsAt(i, "dialed") : conn' = [conn EXCEPT ![c].at = "accepted"]
    BY DEF Accept
  <1>3. /\ c \in Conns
        /\ conn'[c] = [ifi |-> i, at |-> "accepted"]
        /\ \A d \in Conns : d # c => conn'[d] = conn[d]
    <2>1. c \in Conns /\ conn[c].ifi = i
      BY DEF ConnsAt
    <2>2. conn \in ConnType /\ "accepted" \in Places
      BY DEF Types, ConnType, Places
    <2> QED
      BY <1>2, <2>1, <2>2, ConnMoves
  <1>4. Closing'
    BY <1>1 DEF Late, Closing, Types
  <1>5. OneInHand'
    <2> SUFFICES ASSUME NEW j \in Interfaces, NEW d \in ConnsAt(j, "accepted")'
                 PROVE  /\ serve'[j] = "count"
                        /\ \A e \in ConnsAt(j, "accepted")' : d = e
      BY DEF OneInHand
    <2>1. CASE j = i
      <3>1. ConnsAt(i, "accepted") = {}
        BY <1>1 DEF Late, OneInHand
      <3>2. \A e \in ConnsAt(i, "accepted")' : e = c
        BY <1>3, <3>1 DEF ConnsAt
      <3> QED
        BY <1>1, <2>1, <3>2 DEF Types
    <2>2. CASE j # i
      <3>1. ConnsAt(j, "accepted")' \subseteq ConnsAt(j, "accepted")
        BY <1>3, <2>2 DEF ConnsAt
      <3> QED
        BY <1>1, <2>2, <3>1 DEF Late, OneInHand, Types
    <2> QED
      BY <2>1, <2>2
  <1>6. AtMostOneLate'
    <2> SUFFICES ASSUME NEW j \in Interfaces, closer[j] = "done"
                 PROVE  \A d, e \in Accepted(j)' : d = e
      BY <1>1 DEF AtMostOneLate
    <2>1. j # i
      BY <1>1 DEF Late, Closing
    <2>2. Accepted(j)' \subseteq Accepted(j)
      BY <1>3, <2>1 DEF Accepted, Active, ConnsAt
    <2> QED
      BY <2>2 DEF Late, AtMostOneLate
  <1> QED
    BY <1>4, <1>5, <1>6 DEF Late

LEMMA CountLate ==
  ASSUME Types, Late, NEW i \in Interfaces, Count(i) PROVE Late'
  <1>1. /\ serve[i] = "count"
        /\ serve' = [serve EXCEPT ![i] = "accept"]
        /\ UNCHANGED <<lis, closer>>
    BY DEF Count, At
  <1>2. PICK c \in ConnsAt(i, "accepted") : conn' = [conn EXCEPT ![c].at = "reading"]
    BY DEF Count
  <1>3. c \in Conns /\ conn[c].at = "accepted" /\ conn \in ConnType
    <2>1. c \in Conns /\ conn[c] = [ifi |-> i, at |-> "accepted"]
      BY DEF ConnsAt
    <2>2. conn \in ConnType
      BY DEF Types, ConnType
    <2> QED
      BY <2>1, <2>2
  <1>4. NoneNew
    BY <1>2, <1>3, MovesOn
  <1>5. ConnsAt(i, "accepted")' = {}
    <2>1. conn'[c] = [ifi |-> conn[c].ifi, at |-> "reading"]
      <3>1. "reading" \in Places
        BY DEF Places
      <3> QED
        BY <1>2, <1>3, <3>1, ConnMoves
    <2>2. \A d \in ConnsAt(i, "accepted") : d = c
      BY <1>2 DEF Late, OneInHand
    <2> QED
      BY <1>4, <2>1, <2>2 DEF NoneNew, ConnsAt
  <1>6. Closing'
    BY <1>1 DEF Late, Closing, Types
  <1> QED
    BY <1>1, <1>4, <1>5, <1>6, LateKept DEF Types

\* wg.Wait has let only the connection in hand remain.
LEMMA CloseReturnsLate ==
  ASSUME Types, Late, NEW i \in Interfaces, CloseReturns(i) PROVE Late'
  <1>1. /\ closer[i] = "closing" /\ Active(i) = {}
        /\ closer' = [closer EXCEPT ![i] = "done"]
        /\ UNCHANGED <<lis, serve, conn>>
    BY DEF CloseReturns, At
  <1>2. Closing'
    BY <1>1 DEF Late, Closing, Types
  <1>3. NoneNew
    BY <1>1, SameConns
  <1>4. OneInHand'
    BY <1>1, <1>3 DEF Late, OneInHand, NoneNew
  <1>5. AtMostOneLate'
    <2> SUFFICES ASSUME NEW j \in Interfaces, closer'[j] = "done"
                 PROVE  \A d, e \in Accepted(j) : d = e
      BY <1>3 DEF AtMostOneLate, NoneNew
    <2>1. CASE j = i
      BY <1>1, <2>1 DEF Late, OneInHand, Accepted
    <2>2. CASE j # i
      BY <1>1, <2>2 DEF Late, AtMostOneLate, Types
    <2> QED
      BY <2>1, <2>2
  <1> QED
    BY <1>2, <1>4, <1>5 DEF Late

\* What Run does before the goroutines of interface k have started is nothing
\* to Late.
LEMMA StartLate ==
  ASSUME Types, Life, Late, Listen \/ StartServer PROVE Late'
  <1>1. k \in Interfaces /\ closer[k] = "none" /\ serve[k] = "none" /\ conn' = conn
    <2>1. run \in Starting /\ conn' = conn
      BY DEF Listen, StartServer, RunAt, Starting
    <2>2. k \in Interfaces
      BY DEF Types
    <2>3. k >= k
      BY <2>2, ServerAssumption, SMT DEF Interfaces
    <2> QED
      BY <2>1, <2>2, <2>3 DEF Life, NotYet, Late, Closing
  <1>2. NoneNew
    BY <1>1, SameConns
  <1>3. CASE Listen
    <2>1. lis' = [lis EXCEPT ![k] = "open"] /\ UNCHANGED <<closer, serve>>
      BY <1>3 DEF Listen
    <2>2. Closing'
      BY <1>1, <2>1 DEF Late, Closing, Types
    <2> QED
      BY <1>2, <2>1, <2>2, LateKept
  <1>4. CASE StartServer
    <2>1. /\ closer' = [closer EXCEPT ![k] = "wait"]
          /\ serve' = [serve EXCEPT ![k] = "init"]
          /\ lis' = lis
      BY <1>4 DEF StartServer
    <2>2. Closing'
      BY <1>1, <2>1 DEF Late, Closing, Types
    <2>3. ASSUME NEW i \in Interfaces
          PROVE  /\ closer'[i] = "done" => closer[i] = "done"
                 /\ serve[i] = "count" => serve'[i] = "count"
      BY <1>1, <2>1 DEF Types
    <2> QED
      BY <1>2, <2>2, <2>3, LateKept
  <1> QED
    BY <1>3, <1>4

LEMMA NextLate == ASSUME Types, Life, Late, Next PROVE Late'
  <1>1. CASE \/ StartFails \/ OpenStore \/ RegisterTwice \/ Ready \/ Wait
             \/ CloseStore \/ Exit \/ Signal
    <2>1. UNCHANGED <<lis, closer, serve, conn>>
      BY <1>1 DEF StartFails, OpenStore, RegisterTwice, Ready, Wait, CloseStore,
                  Exit, Signal
    <2>2. Closing'
      BY <2>1 DEF Late, Closing
    <2> QED
      BY <2>1, <2>2, SameConns, LateKept
  <1>2. CASE Listen \/ StartServer
    BY <1>2, StartLate
  <1>3. ASSUME NEW i \in Interfaces, Accept(i) PROVE Late'
    BY <1>3, AcceptLate
  <1>4. ASSUME NEW i \in Interfaces, Count(i) PROVE Late'
    BY <1>4, CountLate
  <1>5. ASSUME NEW i \in Interfaces, CloseReturns(i) PROVE Late'
    BY <1>5, CloseReturnsLate
  <1>6. ASSUME NEW i \in Interfaces,
               StoreListener(i) \/ ServeReturns(i) \/ ServeFails(i)
        PROVE  Late'
    <2>1. /\ serve[i] \in {"init", "accept"}
          /\ \E s \in {"accept", "done"} : serve' = [serve EXCEPT ![i] = s]
          /\ UNCHANGED <<lis, closer, conn>>
      BY <1>6 DEF StoreListener, ServeReturns, ServeFails, At
    <2>2. Closing'
      BY <2>1 DEF Late, Closing, Types
    <2>3. ASSUME NEW j \in Interfaces, serve[j] = "count" PROVE serve'[j] = "count"
      BY <2>1, <2>3 DEF Types
    <2> QED
      BY <2>1, <2>2, <2>3, SameConns, LateKept
  <1>7. ASSUME NEW i \in Interfaces, Close(i) PROVE Late'
    <2>1. /\ closer[i] = "wait"
          /\ lis' = [lis EXCEPT ![i] = "closed"]
          /\ closer' = [closer EXCEPT ![i] = "closing"]
          /\ UNCHANGED <<serve, conn>>
      BY <1>7 DEF Close, At
    <2>2. Closing'
      BY <2>1 DEF Late, Closing, Types
    <2>3. ASSUME NEW j \in Interfaces, closer'[j] = "done" PROVE closer[j] = "done"
      BY <2>1, <2>3 DEF Types
    <2> QED
      BY <2>1, <2>2, <2>3, SameConns, LateKept
  <1>8. ASSUME NEW i \in Interfaces,
               CloseNil(i) \/ Purge(i) \/ PurgeAgain(i) \/ PurgeReturns(i)
        PROVE  Late'
    <2>1. UNCHANGED <<lis, closer, serve, conn>>
      BY <1>8 DEF CloseNil, Purge, PurgeAgain, PurgeReturns
    <2>2. Closing'
      BY <2>1 DEF Late, Closing
    <2> QED
      BY <2>1, <2>2, SameConns, LateKept
  <1>9. ASSUME NEW c \in Conns, Dial(c) \/ Send(c) \/ Answer(c) PROVE Late'
    <2>1. UNCHANGED <<lis, closer, serve>>
      BY <1>9 DEF Dial, Send, Answer
    <2>2. Closing'
      BY <2>1 DEF Late, Closing
    <2>3. NoneNew
      <3>1. CASE Dial(c)
        <4>1. PICK i \in Interfaces :
                 conn' = [conn EXCEPT ![c] = [ifi |-> i, at |-> "dialed"]]
          BY <3>1 DEF Dial
        <4>2. \A d \in Conns :
                conn'[d] = IF d = c THEN [ifi |-> i, at |-> "dialed"] ELSE conn[d]
          BY <4>1 DEF Types
        <4> QED
          BY <4>2 DEF NoneNew, ConnsAt, Accepted, Active
      <3>2. CASE Send(c) \/ Answer(c)
        BY <3>2, MovesOn DEF Send, Answer, At, Types, ConnType
      <3> QED
        BY <1>9, <3>1, <3>2
    <2> QED
      BY <2>1, <2>2, <2>3, LateKept
  <1> QED
    BY <1>1, <1>2, <1>3, <1>4, <1>5, <1>6, <1>7, <1>8, <1>9, NextCases

-----------------------------------------------------------------------------

\* Whatever the number of interfaces and connections, Close leaves at most one
\* request behind, and no store is closed under a loop that uses it: what
\* Run's deferred Closes and eg.Wait are for (internal/wgipamd/server.go:79,
\* 110-115).
THEOREM ShutdownOrderly == Spec => [](TypeOK /\ AtMostOneLate /\ StoreOutlivesLoops)
  <1>1. Init => IInv
    BY InitIInv
  <1>2. IInv /\ [Next]_vars => IInv'
    <2> SUFFICES ASSUME IInv, [Next]_vars PROVE IInv'
      OBVIOUS
    <2>1. CASE Next
      BY <2>1, NextTypes, NextLife, NextLate DEF IInv, Late
    <2>2. CASE UNCHANGED vars
      <3>1. Types'
        BY <2>2 DEF IInv, Types, vars
      <3>2. Life'
        BY <2>2, LifeKept DEF IInv, vars, lifeVars
      <3>3. Closing' /\ NoneNew /\ UNCHANGED <<closer, serve>>
        BY <2>2, SameConns DEF IInv, Late, Closing, vars
      <3>4. Late'
        BY <3>3, LateKept DEF IInv
      <3> QED
        BY <3>1, <3>2, <3>4 DEF IInv
    <2> QED
      BY <2>1, <2>2
  <1>3. IInv => TypeOK /\ AtMostOneLate
    BY DEF IInv, Late, TypeOK
  <1>4. IInv => StoreOutlivesLoops
    <2> SUFFICES ASSUME IInv, NEW i \in Interfaces, store[i] = "closed", run # "abort"
                 PROVE  closer[i] = "done" /\ serve[i] = "done" /\ purge[i] = "done"
      BY DEF StoreOutlivesLoops
    <2>1. run = "close"
      BY DEF IInv, Life, Stopped
    <2>2. closer[i] # "none"
      BY <2>1 DEF IInv, Life, StoresHeld
    <2> QED
      BY <2>1, <2>2 DEF IInv, Life, Stopped, Started
  <1> QED
    BY <1>1, <1>2, <1>3, <1>4, PTL DEF Spec

=============================================================================
