------------------------ MODULE DeviceSessionProofs ------------------------
(***************************************************************************)
(* Proofs about DeviceSession: whatever connections, requests, reloads and *)
(* removal reports do in whatever order, a connection that is gone holds   *)
(* nothing, an open device has a holder that will close it, and a running  *)
(* preview has somebody who stops it; for any number of connections,       *)
(* streams and devices.  The last part says the like of ScannerSessions.   *)
(***************************************************************************)
EXTENDS DeviceSession, ScannerSessions, WellFoundedInduction, TLAPS

\* The connections that can still have a record: the server's, and those whose close
\* handler a reload or a stop of the server dropped.
Ids == connected \cup orphaned

\* What a handler at its place knows.
HandlerInv ==
  /\ io.op = "idle" <=> io = Idle
  /\ io.op = "open" => io.at \in {"provider", "remember"}
  /\ io.op = "close" => io.at \in {"halt", "provider", "forget"}
  /\ io.op = "start" => io.at \in {"provider", "format", "reply"} /\ io.sid \in Streams
  /\ io.op = "stop" => io.at \in {"halt", "unbind"}
  /\ io.op \in {"destroy", "gone", "shutdown"} => io.at \in {"streams", "holdings", "devices"}
  /\ io.op \in {"open", "close", "start", "stop"} => io.dev \in Devices
  /\ io.op \in {"open", "close", "start", "stop", "destroy"} => io.conn \in Ids
  /\ io.op = "gone" => io.conn \in Conns
  /\ io.op = "shutdown" => io.conn = 0

\* The close handler takes the bindings first and the devices later.
ReleaseInv ==
  io.op = "gone" => /\ BindingsOf(io.conn) = {}
                    /\ io.at = "devices" => opened[io.conn] = {}

HoldersInv == \A c \in Conns : Holds(c) => c \in Ids \/ io.conn = c

\* Who will close an open device.  InFlight is weaker: a handler that only stops
\* previews names the device, too.
Held(d) ==
  \/ At("open", "remember") /\ io.dev = d
  \/ io.at = "devices" /\ d \in io.todo
  \/ d \in unclaimed
  \/ \E c \in Conns : d \in opened[c]

HeldInv ==
  /\ \A d \in openDev : Held(d)
  /\ At("close", "forget") => io.dev \notin openDev

\* A device is never closed before its preview has been stopped.
PreviewInv == \A d \in Devices : Running(d) /\ removal[d] = "none" => d \in openDev

\* Without a reload the connection ids are never used again.
FreshInv ==
  ~TlsEnabled =>
    /\ phase # "reloading"
    /\ \A c \in Conns : c >= nextConn =>
         c \notin connected /\ io.conn # c /\ session[c] = NoSession /\ ~Holds(c)

Inv ==
  TypeOK /\ HandlerInv /\ ReleaseInv /\ HoldersInv /\ HeldInv /\ PreviewInv /\ FreshInv

-----------------------------------------------------------------------------
\* The values of io.
IoSet ==
  [op : {"idle", "open", "close", "start", "stop", "destroy", "gone", "shutdown"},
   at : {"idle", "provider", "remember", "halt", "forget", "format", "reply", "unbind",
         "streams", "holdings", "devices"},
   conn : Conns \cup {0}, dev : Devices \cup {NoDevice},
   sid : Streams \cup {NoStream}, todo : SUBSET Devices]

LEMMA TakeStreamsType ==
  ASSUME TypeOK, NEW op \in {"destroy", "gone", "shutdown"}, NEW c \in Conns \cup {0},
         NEW S \in SUBSET bindings, TakeStreams(op, c, S)
  PROVE  io' \in IoSet /\ bindings' \subseteq Binding
<1>1. {b.dev : b \in S} \subseteq Devices
  BY DEF TypeOK, Binding
<1> QED BY <1>1 DEF TakeStreams, TypeOK, Idle, IoSet

LEMMA LeastNumber ==
  ASSUME NEW T \in SUBSET Nat, T # {}
  PROVE  \E x \in T : \A y \in T : x <= y
<1>1. PICK x \in T : \A y \in T : <<y, x>> \notin OpToRel(<, Nat)
  BY WFMin, NatLessThanWellFounded
<1>2. \A y \in T : ~(y < x)
  BY <1>1 DEF OpToRel
<1> QED BY <1>2

\* Stream ids are compared only within the table, so the first binding is in it.
LEMMA FirstOfIn ==
  ASSUME TypeOK, NEW S \in SUBSET bindings, S # {}
  PROVE  FirstOf(S) \in S
<1> DEFINE T == {b.id : b \in S}
<1>1. T \in SUBSET Nat /\ T # {}
  BY DEF TypeOK, Binding, Streams
<1>2. PICK x \in T : \A y \in T : x <= y
  <2> HIDE DEF T
  <2> QED BY <1>1, LeastNumber
<1>3. PICK b \in S : b.id = x
  OBVIOUS
<1>4. \A o \in S : b.id <= o.id
  BY <1>2, <1>3
<1> QED BY <1>4 DEF FirstOf

LEMMA StartAnswers ==
  ASSUME TypeOK, UpdateStreamFormat
  PROVE  /\ io' \in IoSet /\ At("start", "format")
         /\ \/ io' = Idle
            \/ /\ io'.op = "start" /\ io'.at = "reply" /\ io'.sid \in Streams
               /\ io'.conn = io.conn /\ io'.dev = io.dev /\ io'.todo = io.todo
<1>1. CASE Matching(io.conn, io.dev) = {}
  BY <1>1 DEF UpdateStreamFormat, TypeOK, Finish, Idle, IoSet
<1>2. CASE Matching(io.conn, io.dev) # {}
  <2>1. PICK n : n = FirstOf(Matching(io.conn, io.dev)).id
    OBVIOUS
  <2>2. n \in Streams
    BY <1>2, <2>1, FirstOfIn DEF Matching, BindingsOf, TypeOK, Binding
  <2>3. io' = [io EXCEPT !.at = "reply", !.sid = n] /\ At("start", "format")
    BY <1>2, <2>1 DEF UpdateStreamFormat
  <2>4. io \in IoSet
    BY DEF TypeOK, IoSet
  <2> QED BY <2>2, <2>3, <2>4 DEF IoSet, At
<1> QED BY <1>1, <1>2

LEMMA TypeKept ==
  ASSUME TypeOK, HandlerInv, [Next]_vars
  PROVE  TypeOK'
<1> USE DEF TypeOK, Idle, Run, At, Goto, Finish, Ready, Serving, server, provider,
            StopPreview, CloseProvider, BindingsOf, StopStream, Binding
<1>1. CASE Connect
  <2>1. nextConn \in Conns /\ nextConn + 1 \in 1..(MaxConns + 1)
    BY <1>1, DeviceSessionAssumption DEF Connect, Conns
  <2> QED BY <1>1, <2>1 DEF Connect
<1>2. CASE Shutdown
  <2>1. io' \in IoSet /\ bindings' \subseteq Binding
    BY <1>2, TakeStreamsType DEF Shutdown
  <2> QED BY <1>2, <2>1 DEF Shutdown, IoSet
<1>3. CASE ReloadStop
  BY <1>3, DeviceSessionAssumption DEF ReloadStop
<1>4. CASE ReloadStart
  BY <1>4, DeviceSessionAssumption DEF ReloadStart
<1>5. CASE ServerStop
  BY <1>5, DeviceSessionAssumption DEF ServerStop
<1>6. CASE ReleaseStream
  BY <1>6, DeviceSessionAssumption DEF ReleaseStream
<1>7. CASE TakeHoldings
  <2> DEFINE holders == IF io.op = "shutdown" THEN Conns ELSE {io.conn}
  <2>1. UNION {opened[c] : c \in holders} \subseteq Devices
    <3>1. \A c \in Conns : opened[c] \subseteq Devices
      OBVIOUS
    <3>2. holders \subseteq Conns
      BY <1>7 DEF TakeHoldings, HandlerInv, Ids
    <3> QED BY <3>1, <3>2
  <2>2. io' \in IoSet
    BY <1>7, <2>1 DEF TakeHoldings, IoSet
  <2>3. opened' \in [Conns -> SUBSET Devices]
    BY <1>7 DEF TakeHoldings
  <2> QED BY <1>7, <2>2, <2>3 DEF TakeHoldings, IoSet
<1>8. CASE ReleaseDevice
  BY <1>8, DeviceSessionAssumption DEF ReleaseDevice
<1>9. CASE OpenProvider
  <2>1. io.dev \in Devices /\ io' \in IoSet
    BY <1>9 DEF OpenProvider, HandlerInv, IoSet
  <2> QED BY <1>9, <2>1 DEF OpenProvider, IoSet
<1>10. CASE RememberOpenedDevice
  <2>1. io.conn \in Conns /\ io.dev \in Devices /\ io' \in IoSet
    BY <1>10 DEF RememberOpenedDevice, HandlerInv, Ids, IoSet
  <2>2. opened' \in [Conns -> SUBSET Devices]
    BY <1>10, <2>1 DEF RememberOpenedDevice
  <2> QED BY <1>10, <2>1, <2>2 DEF RememberOpenedDevice, IoSet
<1>11. CASE CloseStopVideo
  BY <1>11, DeviceSessionAssumption DEF CloseStopVideo
<1>12. CASE CloseAtProvider
  BY <1>12, DeviceSessionAssumption DEF CloseAtProvider
<1>13. CASE ForgetOpenedDevice
  BY <1>13, DeviceSessionAssumption DEF ForgetOpenedDevice
<1>14. CASE StartVideo
  BY <1>14, DeviceSessionAssumption DEF StartVideo
<1>15. CASE UpdateStreamFormat
  BY <1>15, StartAnswers DEF UpdateStreamFormat, IoSet
<1>16. CASE StartReply
  BY <1>16, DeviceSessionAssumption DEF StartReply
<1>17. CASE StopAtProvider
  BY <1>17, DeviceSessionAssumption DEF StopAtProvider
<1>18. CASE StopUnbind
  BY <1>18, DeviceSessionAssumption DEF StopUnbind
<1>19. ASSUME NEW c \in Conns, CreateSession(c) PROVE TypeOK'
  BY <1>19, DeviceSessionAssumption DEF CreateSession
<1>20. ASSUME NEW c \in Conns, DestroySession(c) PROVE TypeOK'
  <2>1. io' \in IoSet /\ bindings' \subseteq Binding
    BY <1>20, TakeStreamsType DEF DestroySession
  <2> QED BY <1>20, <2>1 DEF DestroySession, IoSet
<1>21. ASSUME NEW c \in Conns, Disconnect(c) PROVE TypeOK'
  <2>1. io' \in IoSet /\ bindings' \subseteq Binding
    BY <1>21, TakeStreamsType DEF Disconnect
  <2>2. connected' \subseteq Conns /\ session' \in [Conns -> Scopes \cup {NoSession}]
    BY <1>21 DEF Disconnect
  <2> QED BY <1>21, <2>1, <2>2 DEF Disconnect, IoSet
<1>22. ASSUME NEW c \in Conns, NEW d \in Devices, DeviceOpen(c, d) PROVE TypeOK'
  BY <1>22, DeviceSessionAssumption DEF DeviceOpen
<1>23. ASSUME NEW c \in Conns, NEW d \in Devices, DeviceClose(c, d) PROVE TypeOK'
  BY <1>23, DeviceSessionAssumption DEF DeviceClose
<1>24. ASSUME NEW c \in Conns, NEW d \in Devices, VideoStart(c, d) PROVE TypeOK'
  <2>1. nextStream \in Streams /\ nextStream' \in 1..(MaxStreams + 1) /\ io' \in IoSet
    BY <1>24, DeviceSessionAssumption DEF VideoStart, Streams, IoSet
  <2>2. bindings' \subseteq Binding
    BY <1>24, <2>1 DEF VideoStart
  <2> QED BY <1>24, <2>1, <2>2 DEF VideoStart, IoSet
<1>25. ASSUME NEW c \in Conns, NEW d \in Devices, VideoStop(c, d) PROVE TypeOK'
  BY <1>25, DeviceSessionAssumption DEF VideoStop
<1>26. ASSUME NEW d \in Devices, MarkRemoved(d) PROVE TypeOK'
  BY <1>26, DeviceSessionAssumption DEF MarkRemoved
<1>27. ASSUME NEW d \in Devices, AddedAgain(d) PROVE TypeOK'
  BY <1>27, DeviceSessionAssumption DEF AddedAgain
<1>28. ASSUME NEW d \in Devices, ForgetEverywhere(d) PROVE TypeOK'
  BY <1>28, DeviceSessionAssumption DEF ForgetEverywhere
<1>29. ASSUME NEW d \in Devices, ClearDevice(d) PROVE TypeOK'
  BY <1>29, DeviceSessionAssumption DEF ClearDevice
<1>30. ASSUME NEW d \in Devices, EndThread(d) PROVE TypeOK'
  BY <1>30, DeviceSessionAssumption DEF EndThread
<1>31. CASE UNCHANGED vars
  BY <1>31, DeviceSessionAssumption DEF vars, server, provider
<1> QED
  BY <1>1, <1>2, <1>3, <1>4, <1>5, <1>6, <1>7, <1>8, <1>9, <1>10, <1>11, <1>12, <1>13,
     <1>14, <1>15, <1>16, <1>17, <1>18, <1>19, <1>20, <1>21, <1>22, <1>23, <1>24, <1>25,
     <1>26, <1>27, <1>28, <1>29, <1>30, <1>31
     DEF Next, IoStep, RemovalStep

LEMMA HandlersKept ==
  ASSUME TypeOK, HandlerInv, [Next]_vars
  PROVE  HandlerInv'
<1> USE DEF HandlerInv, Ids, Idle, Run, At, Goto, Finish, Ready, Serving, server,
            provider, TakeStreams
<1>a. io \in IoSet /\ connected \subseteq Conns /\ orphaned \subseteq Conns
  BY DEF TypeOK, IoSet, HandlerInv
<1> USE DEF IoSet
<1>1. CASE Connect
  BY <1>1, <1>a, DeviceSessionAssumption DEF Connect
<1>2. CASE Shutdown
  BY <1>2, <1>a, DeviceSessionAssumption DEF Shutdown
<1>3. CASE ReloadStop
  BY <1>3, <1>a, DeviceSessionAssumption DEF ReloadStop
<1>4. CASE ReloadStart
  BY <1>4, <1>a, DeviceSessionAssumption DEF ReloadStart
<1>5. CASE ServerStop
  BY <1>5, <1>a, DeviceSessionAssumption DEF ServerStop
<1>6. CASE ReleaseStream
  BY <1>6, <1>a, DeviceSessionAssumption DEF ReleaseStream
<1>7. CASE TakeHoldings
  <2>1. /\ io'.at = "devices" /\ io'.op = io.op /\ io'.conn = io.conn /\ io'.dev = io.dev
        /\ io' # Idle /\ Ids' = Ids
    BY <1>7, <1>a DEF TakeHoldings
  <2>2. io.op \in {"destroy", "gone", "shutdown"}
    BY <1>7, <1>a DEF TakeHoldings
  <2> QED BY <1>7, <2>1, <2>2, <1>a
<1>8. CASE ReleaseDevice
  BY <1>8, <1>a, DeviceSessionAssumption DEF ReleaseDevice
<1>9. CASE OpenProvider
  BY <1>9, <1>a, DeviceSessionAssumption DEF OpenProvider
<1>10. CASE RememberOpenedDevice
  BY <1>10, <1>a, DeviceSessionAssumption DEF RememberOpenedDevice
<1>11. CASE CloseStopVideo
  BY <1>11, <1>a, DeviceSessionAssumption DEF CloseStopVideo
<1>12. CASE CloseAtProvider
  BY <1>12, <1>a, DeviceSessionAssumption DEF CloseAtProvider
<1>13. CASE ForgetOpenedDevice
  BY <1>13, <1>a, DeviceSessionAssumption DEF ForgetOpenedDevice
<1>14. CASE StartVideo
  BY <1>14, <1>a, DeviceSessionAssumption DEF StartVideo
<1>15. CASE UpdateStreamFormat
  <2>1. Ids' = Ids
    BY <1>15 DEF UpdateStreamFormat
  <2> QED BY <1>15, <2>1, <1>a, StartAnswers
<1>16. CASE StartReply
  BY <1>16, <1>a, DeviceSessionAssumption DEF StartReply
<1>17. CASE StopAtProvider
  BY <1>17, <1>a, DeviceSessionAssumption DEF StopAtProvider
<1>18. CASE StopUnbind
  BY <1>18, <1>a, DeviceSessionAssumption DEF StopUnbind
<1>19. ASSUME NEW c \in Conns, CreateSession(c) PROVE HandlerInv'
  BY <1>19, <1>a, DeviceSessionAssumption DEF CreateSession
<1>20. ASSUME NEW c \in Conns, DestroySession(c) PROVE HandlerInv'
  BY <1>20, <1>a, DeviceSessionAssumption DEF DestroySession
<1>21. ASSUME NEW c \in Conns, Disconnect(c) PROVE HandlerInv'
  BY <1>21, <1>a, DeviceSessionAssumption DEF Disconnect
<1>22. ASSUME NEW c \in Conns, NEW d \in Devices, DeviceOpen(c, d) PROVE HandlerInv'
  BY <1>22, <1>a, DeviceSessionAssumption DEF DeviceOpen
<1>23. ASSUME NEW c \in Conns, NEW d \in Devices, DeviceClose(c, d) PROVE HandlerInv'
  BY <1>23, <1>a, DeviceSessionAssumption DEF DeviceClose
<1>24. ASSUME NEW c \in Conns, NEW d \in Devices, VideoStart(c, d) PROVE HandlerInv'
  <2>1. nextStream \in Streams
    BY <1>24, DeviceSessionAssumption DEF VideoStart, Streams, TypeOK
  <2> QED BY <1>24, <2>1, <1>a DEF VideoStart
<1>25. ASSUME NEW c \in Conns, NEW d \in Devices, VideoStop(c, d) PROVE HandlerInv'
  BY <1>25, <1>a, DeviceSessionAssumption DEF VideoStop
<1>26. ASSUME NEW d \in Devices, MarkRemoved(d) PROVE HandlerInv'
  BY <1>26, <1>a, DeviceSessionAssumption DEF MarkRemoved
<1>27. ASSUME NEW d \in Devices, AddedAgain(d) PROVE HandlerInv'
  BY <1>27, <1>a, DeviceSessionAssumption DEF AddedAgain
<1>28. ASSUME NEW d \in Devices, ForgetEverywhere(d) PROVE HandlerInv'
  BY <1>28, <1>a, DeviceSessionAssumption DEF ForgetEverywhere
<1>29. ASSUME NEW d \in Devices, ClearDevice(d) PROVE HandlerInv'
  BY <1>29, <1>a, DeviceSessionAssumption DEF ClearDevice
<1>30. ASSUME NEW d \in Devices, EndThread(d) PROVE HandlerInv'
  BY <1>30, <1>a, DeviceSessionAssumption DEF EndThread
<1>31. CASE UNCHANGED vars
  BY <1>31, <1>a, DeviceSessionAssumption DEF vars, server, provider
<1> QED
  BY <1>1, <1>2, <1>3, <1>4, <1>5, <1>6, <1>7, <1>8, <1>9, <1>10, <1>11, <1>12, <1>13,
     <1>14, <1>15, <1>16, <1>17, <1>18, <1>19, <1>20, <1>21, <1>22, <1>23, <1>24, <1>25,
     <1>26, <1>27, <1>28, <1>29, <1>30, <1>31
     DEF Next, IoStep, RemovalStep

LEMMA ReleasesKept ==
  ASSUME TypeOK, HandlerInv, ReleaseInv, [Next]_vars
  PROVE  ReleaseInv'
<1> USE DEF ReleaseInv, BindingsOf, Idle, Run, At, Goto, Finish, Ready, Serving, server,
            provider, TakeStreams, StopStream
<1>a. io \in IoSet /\ opened \in [Conns -> SUBSET Devices] /\ (io.op = "gone" => io.conn \in Conns)
  BY DEF TypeOK, IoSet, HandlerInv
<1> USE DEF IoSet
<1>1. CASE Connect
  BY <1>1, <1>a DEF Connect
<1>2. CASE Shutdown
  BY <1>2, <1>a DEF Shutdown
<1>3. CASE ReloadStop
  BY <1>3, <1>a DEF ReloadStop
<1>4. CASE ReloadStart
  BY <1>4, <1>a DEF ReloadStart
<1>5. CASE ServerStop
  BY <1>5, <1>a DEF ServerStop
<1>6. CASE ReleaseStream
  BY <1>6, <1>a DEF ReleaseStream
<1>7. CASE TakeHoldings
  BY <1>7, <1>a DEF TakeHoldings
<1>8. CASE ReleaseDevice
  BY <1>8, <1>a DEF ReleaseDevice
<1>9. CASE OpenProvider
  BY <1>9, <1>a DEF OpenProvider
<1>10. CASE RememberOpenedDevice
  BY <1>10, <1>a DEF RememberOpenedDevice
<1>11. CASE CloseStopVideo
  BY <1>11, <1>a DEF CloseStopVideo
<1>12. CASE CloseAtProvider
  BY <1>12, <1>a DEF CloseAtProvider
<1>13. CASE ForgetOpenedDevice
  BY <1>13, <1>a DEF ForgetOpenedDevice
<1>14. CASE StartVideo
  BY <1>14, <1>a DEF StartVideo
<1>15. CASE UpdateStreamFormat
  <2>1. io'.op # "gone"
    BY <1>15, StartAnswers
  <2> QED BY <2>1
<1>16. CASE StartReply
  BY <1>16, <1>a DEF StartReply
<1>17. CASE StopAtProvider
  BY <1>17, <1>a DEF StopAtProvider
<1>18. CASE StopUnbind
  BY <1>18, <1>a DEF StopUnbind
<1>19. ASSUME NEW c \in Conns, CreateSession(c) PROVE ReleaseInv'
  BY <1>19, <1>a DEF CreateSession
<1>20. ASSUME NEW c \in Conns, DestroySession(c) PROVE ReleaseInv'
  BY <1>20, <1>a DEF DestroySession
<1>21. ASSUME NEW c \in Conns, Disconnect(c) PROVE ReleaseInv'
  BY <1>21, <1>a DEF Disconnect
<1>22. ASSUME NEW c \in Conns, NEW d \in Devices, DeviceOpen(c, d) PROVE ReleaseInv'
  BY <1>22, <1>a DEF DeviceOpen
<1>23. ASSUME NEW c \in Conns, NEW d \in Devices, DeviceClose(c, d) PROVE ReleaseInv'
  BY <1>23, <1>a DEF DeviceClose
<1>24. ASSUME NEW c \in Conns, NEW d \in Devices, VideoStart(c, d) PROVE ReleaseInv'
  BY <1>24, <1>a DEF VideoStart
<1>25. ASSUME NEW c \in Conns, NEW d \in Devices, VideoStop(c, d) PROVE ReleaseInv'
  BY <1>25, <1>a DEF VideoStop
<1>26. ASSUME NEW d \in Devices, MarkRemoved(d) PROVE ReleaseInv'
  BY <1>26, <1>a DEF MarkRemoved
<1>27. ASSUME NEW d \in Devices, AddedAgain(d) PROVE ReleaseInv'
  BY <1>27, <1>a DEF AddedAgain
<1>28. ASSUME NEW d \in Devices, ForgetEverywhere(d) PROVE ReleaseInv'
  BY <1>28, <1>a DEF ForgetEverywhere
<1>29. ASSUME NEW d \in Devices, ClearDevice(d) PROVE ReleaseInv'
  BY <1>29, <1>a DEF ClearDevice
<1>30. ASSUME NEW d \in Devices, EndThread(d) PROVE ReleaseInv'
  BY <1>30, <1>a DEF EndThread
<1>31. CASE UNCHANGED vars
  BY <1>31, <1>a DEF vars, server, provider
<1> QED
  BY <1>1, <1>2, <1>3, <1>4, <1>5, <1>6, <1>7, <1>8, <1>9, <1>10, <1>11, <1>12, <1>13,
     <1>14, <1>15, <1>16, <1>17, <1>18, <1>19, <1>20, <1>21, <1>22, <1>23, <1>24, <1>25,
     <1>26, <1>27, <1>28, <1>29, <1>30, <1>31
     DEF Next, IoStep, RemovalStep

\* A step that gives no connection anything new, keeps the connections that have their
\* close handler ahead of them, and leaves the handler at its connection unless that has one
\* or holds nothing.
Shrinks ==
  /\ \A c \in Conns : opened'[c] \subseteq opened[c] /\ bindings' \subseteq bindings
  /\ Ids \subseteq Ids'
  /\ \A c \in Conns : io.conn = c => io'.conn = c \/ c \in Ids' \/ ~Holds(c)'

LEMMA RecordsShrink ==
  ASSUME HoldersInv, Shrinks
  PROVE  HoldersInv'
BY DEF HoldersInv, Shrinks, Holds, BindingsOf

LEMMA HoldersKept ==
  ASSUME TypeOK, HandlerInv, ReleaseInv, HoldersInv, [Next]_vars
  PROVE  HoldersInv'
<1> USE DEF BindingsOf, Ids, Idle, Run, At, Goto, Finish, Ready, Serving, server,
            provider, TakeStreams, StopStream
<1>a. /\ io \in IoSet /\ opened \in [Conns -> SUBSET Devices]
      /\ HandlerInv /\ ReleaseInv /\ 0 \notin Conns
  BY DEF TypeOK, IoSet, HandlerInv, Conns
<1> USE DEF IoSet, HandlerInv, ReleaseInv, Shrinks, Holds
<1>1. CASE Connect
  <2>1. Shrinks
    BY <1>1, <1>a DEF Connect
  <2> QED BY <2>1, RecordsShrink
<1>2. CASE Shutdown
  <2>1. Shrinks
    BY <1>2, <1>a DEF Shutdown
  <2> QED BY <2>1, RecordsShrink
<1>3. CASE ReloadStop
  <2>1. Shrinks
    BY <1>3, <1>a DEF ReloadStop
  <2> QED BY <2>1, RecordsShrink
<1>4. CASE ReloadStart
  <2>1. Shrinks
    BY <1>4, <1>a DEF ReloadStart
  <2> QED BY <2>1, RecordsShrink
<1>5. CASE ServerStop
  <2>1. Shrinks
    BY <1>5, <1>a DEF ServerStop
  <2> QED BY <2>1, RecordsShrink
<1>6. CASE ReleaseStream
  <2>1. Shrinks
    BY <1>6, <1>a DEF ReleaseStream
  <2> QED BY <2>1, RecordsShrink
<1>7. CASE TakeHoldings
  <2>1. Shrinks
    BY <1>7, <1>a DEF TakeHoldings
  <2> QED BY <2>1, RecordsShrink
<1>8. CASE ReleaseDevice
  <2>1. Shrinks
    BY <1>8, <1>a DEF ReleaseDevice
  <2> QED BY <2>1, RecordsShrink
<1>9. CASE OpenProvider
  <2>1. Shrinks
    BY <1>9, <1>a DEF OpenProvider
  <2> QED BY <2>1, RecordsShrink
<1>10. CASE RememberOpenedDevice
  <2>1. \A e \in Conns \ {io.conn} : Holds(e)' => Holds(e)
    BY <1>10, <1>a DEF RememberOpenedDevice, Holds
  <2>2. io.conn \in Ids'
    BY <1>10, <1>a DEF RememberOpenedDevice
  <2> QED BY <1>10, <2>1, <2>2, <1>a DEF RememberOpenedDevice, HoldersInv
<1>11. CASE CloseStopVideo
  <2>1. Shrinks
    BY <1>11, <1>a DEF CloseStopVideo
  <2> QED BY <2>1, RecordsShrink
<1>12. CASE CloseAtProvider
  <2>1. Shrinks
    BY <1>12, <1>a DEF CloseAtProvider
  <2> QED BY <2>1, RecordsShrink
<1>13. CASE ForgetOpenedDevice
  <2>1. Shrinks
    BY <1>13, <1>a DEF ForgetOpenedDevice
  <2> QED BY <2>1, RecordsShrink
<1>14. CASE StartVideo
  <2>1. Shrinks
    BY <1>14, <1>a DEF StartVideo
  <2> QED BY <2>1, RecordsShrink
<1>15. CASE UpdateStreamFormat
  <2>1. Shrinks
    BY <1>15, <1>a, StartAnswers DEF UpdateStreamFormat
  <2> QED BY <2>1, RecordsShrink
<1>16. CASE StartReply
  <2>1. Shrinks
    BY <1>16, <1>a DEF StartReply
  <2> QED BY <2>1, RecordsShrink
<1>17. CASE StopAtProvider
  <2>1. Shrinks
    BY <1>17, <1>a DEF StopAtProvider
  <2> QED BY <2>1, RecordsShrink
<1>18. CASE StopUnbind
  <2>1. Shrinks
    BY <1>18, <1>a DEF StopUnbind
  <2> QED BY <2>1, RecordsShrink
<1>19. ASSUME NEW c \in Conns, CreateSession(c) PROVE HoldersInv'
  <2>1. Shrinks
    BY <1>19, <1>a DEF CreateSession
  <2> QED BY <2>1, RecordsShrink
<1>20. ASSUME NEW c \in Conns, DestroySession(c) PROVE HoldersInv'
  <2>1. Shrinks
    BY <1>20, <1>a DEF DestroySession
  <2> QED BY <2>1, RecordsShrink
<1>21. ASSUME NEW c \in Conns, Disconnect(c) PROVE HoldersInv'
  <2>1. Holds(c)' => io'.conn = c
    BY <1>21 DEF Disconnect
  <2> QED BY <1>21, <2>1, <1>a DEF Disconnect, HoldersInv
<1>22. ASSUME NEW c \in Conns, NEW d \in Devices, DeviceOpen(c, d) PROVE HoldersInv'
  <2>1. Shrinks
    BY <1>22, <1>a DEF DeviceOpen
  <2> QED BY <2>1, RecordsShrink
<1>23. ASSUME NEW c \in Conns, NEW d \in Devices, DeviceClose(c, d) PROVE HoldersInv'
  <2>1. Shrinks
    BY <1>23, <1>a DEF DeviceClose
  <2> QED BY <2>1, RecordsShrink
<1>24. ASSUME NEW c \in Conns, NEW d \in Devices, VideoStart(c, d) PROVE HoldersInv'
  <2>1. \A e \in Conns \ {c} : Holds(e)' => Holds(e)
    BY <1>24, <1>a DEF VideoStart, Holds
  <2> QED BY <1>24, <2>1, <1>a DEF VideoStart, HoldersInv
<1>25. ASSUME NEW c \in Conns, NEW d \in Devices, VideoStop(c, d) PROVE HoldersInv'
  <2>1. Shrinks
    BY <1>25, <1>a DEF VideoStop
  <2> QED BY <2>1, RecordsShrink
<1>26. ASSUME NEW d \in Devices, MarkRemoved(d) PROVE HoldersInv'
  <2>1. Shrinks
    BY <1>26, <1>a DEF MarkRemoved
  <2> QED BY <2>1, RecordsShrink
<1>27. ASSUME NEW d \in Devices, AddedAgain(d) PROVE HoldersInv'
  <2>1. Shrinks
    BY <1>27, <1>a DEF AddedAgain
  <2> QED BY <2>1, RecordsShrink
<1>28. ASSUME NEW d \in Devices, ForgetEverywhere(d) PROVE HoldersInv'
  <2>1. Shrinks
    BY <1>28, <1>a DEF ForgetEverywhere
  <2> QED BY <2>1, RecordsShrink
<1>29. ASSUME NEW d \in Devices, ClearDevice(d) PROVE HoldersInv'
  <2>1. Shrinks
    BY <1>29, <1>a DEF ClearDevice
  <2> QED BY <2>1, RecordsShrink
<1>30. ASSUME NEW d \in Devices, EndThread(d) PROVE HoldersInv'
  <2>1. Shrinks
    BY <1>30, <1>a DEF EndThread
  <2> QED BY <2>1, RecordsShrink
<1>31. CASE UNCHANGED vars
  <2>1. Shrinks
    BY <1>31, <1>a DEF vars
  <2> QED BY <2>1, RecordsShrink
<1> QED
  BY <1>1, <1>2, <1>3, <1>4, <1>5, <1>6, <1>7, <1>8, <1>9, <1>10, <1>11, <1>12, <1>13,
     <1>14, <1>15, <1>16, <1>17, <1>18, <1>19, <1>20, <1>21, <1>22, <1>23, <1>24, <1>25,
     <1>26, <1>27, <1>28, <1>29, <1>30, <1>31
     DEF Next, IoStep, RemovalStep

LEMMA HoldingsKept ==
  ASSUME TypeOK, HandlerInv, HeldInv, [Next]_vars
  PROVE  HeldInv'
<1> USE DEF HeldInv, Held, Idle, Run, At, Goto, Finish, Ready, Serving, server, provider,
            TakeStreams, StopPreview, CloseProvider
<1>a. io \in IoSet /\ opened \in [Conns -> SUBSET Devices] /\ openDev \subseteq Devices
  BY DEF TypeOK, IoSet, HandlerInv
<1> USE DEF IoSet
<1>1. CASE Connect
  BY <1>1, <1>a DEF Connect
<1>2. CASE Shutdown
  BY <1>2, <1>a DEF Shutdown
<1>3. CASE ReloadStop
  BY <1>3, <1>a DEF ReloadStop
<1>4. CASE ReloadStart
  BY <1>4, <1>a DEF ReloadStart
<1>5. CASE ServerStop
  BY <1>5, <1>a DEF ServerStop
<1>6. CASE ReleaseStream
  BY <1>6, <1>a DEF ReleaseStream
<1>7. CASE TakeHoldings
  BY <1>7, <1>a DEF TakeHoldings
<1>8. CASE ReleaseDevice
  BY <1>8, <1>a DEF ReleaseDevice
<1>9. CASE OpenProvider
  BY <1>9, <1>a DEF OpenProvider
<1>10. CASE RememberOpenedDevice
  <2>1. io.conn \in Conns /\ io.dev \in opened'[io.conn] /\ \A e \in Conns : opened[e] \subseteq opened'[e]
    BY <1>10, <1>a DEF RememberOpenedDevice, HandlerInv, Ids, TypeOK
  <2> QED BY <1>10, <2>1, <1>a DEF RememberOpenedDevice
<1>11. CASE CloseStopVideo
  BY <1>11, <1>a DEF CloseStopVideo
<1>12. CASE CloseAtProvider
  BY <1>12, <1>a DEF CloseAtProvider
<1>13. CASE ForgetOpenedDevice
  BY <1>13, <1>a DEF ForgetOpenedDevice
<1>14. CASE StartVideo
  BY <1>14, <1>a DEF StartVideo
<1>15. CASE UpdateStreamFormat
  <2>1. /\ io.op = "start" /\ io.at = "format" /\ io'.op # "open" /\ io'.at # "devices"
        /\ io'.op # "close"
    BY <1>15, StartAnswers
  <2> QED BY <1>15, <2>1 DEF UpdateStreamFormat
<1>16. CASE StartReply
  BY <1>16, <1>a DEF StartReply
<1>17. CASE StopAtProvider
  BY <1>17, <1>a DEF StopAtProvider
<1>18. CASE StopUnbind
  BY <1>18, <1>a DEF StopUnbind
<1>19. ASSUME NEW c \in Conns, CreateSession(c) PROVE HeldInv'
  BY <1>19, <1>a DEF CreateSession
<1>20. ASSUME NEW c \in Conns, DestroySession(c) PROVE HeldInv'
  BY <1>20, <1>a DEF DestroySession
<1>21. ASSUME NEW c \in Conns, Disconnect(c) PROVE HeldInv'
  BY <1>21, <1>a DEF Disconnect
<1>22. ASSUME NEW c \in Conns, NEW d \in Devices, DeviceOpen(c, d) PROVE HeldInv'
  BY <1>22, <1>a DEF DeviceOpen
<1>23. ASSUME NEW c \in Conns, NEW d \in Devices, DeviceClose(c, d) PROVE HeldInv'
  BY <1>23, <1>a DEF DeviceClose
<1>24. ASSUME NEW c \in Conns, NEW d \in Devices, VideoStart(c, d) PROVE HeldInv'
  BY <1>24, <1>a DEF VideoStart
<1>25. ASSUME NEW c \in Conns, NEW d \in Devices, VideoStop(c, d) PROVE HeldInv'
  BY <1>25, <1>a DEF VideoStop
<1>26. ASSUME NEW d \in Devices, MarkRemoved(d) PROVE HeldInv'
  BY <1>26, <1>a DEF MarkRemoved
<1>27. ASSUME NEW d \in Devices, AddedAgain(d) PROVE HeldInv'
  BY <1>27, <1>a DEF AddedAgain
<1>28. ASSUME NEW d \in Devices, ForgetEverywhere(d) PROVE HeldInv'
  BY <1>28, <1>a DEF ForgetEverywhere
<1>29. ASSUME NEW d \in Devices, ClearDevice(d) PROVE HeldInv'
  BY <1>29, <1>a DEF ClearDevice
<1>30. ASSUME NEW d \in Devices, EndThread(d) PROVE HeldInv'
  BY <1>30, <1>a DEF EndThread
<1>31. CASE UNCHANGED vars
  BY <1>31, <1>a DEF vars, server, provider
<1> QED
  BY <1>1, <1>2, <1>3, <1>4, <1>5, <1>6, <1>7, <1>8, <1>9, <1>10, <1>11, <1>12, <1>13,
     <1>14, <1>15, <1>16, <1>17, <1>18, <1>19, <1>20, <1>21, <1>22, <1>23, <1>24, <1>25,
     <1>26, <1>27, <1>28, <1>29, <1>30, <1>31
     DEF Next, IoStep, RemovalStep

LEMMA PreviewsKept ==
  ASSUME TypeOK, HandlerInv, PreviewInv, [Next]_vars
  PROVE  PreviewInv'
<1> USE DEF PreviewInv, Running, Idle, Run, At, Goto, Finish, Ready, Serving, server,
            provider, TakeStreams, StopPreview, CloseProvider
<1>a. /\ io \in IoSet /\ openDev \subseteq Devices
      /\ preview \in [Devices -> Streams \cup {NoStream}]
      /\ removal \in [Devices -> {"none", "marked", "forgotten", "cleared", "added"}]
  BY DEF TypeOK, IoSet, HandlerInv
<1> USE DEF IoSet
<1>1. CASE Connect
  BY <1>1, <1>a DEF Connect
<1>2. CASE Shutdown
  BY <1>2, <1>a DEF Shutdown
<1>3. CASE ReloadStop
  BY <1>3, <1>a DEF ReloadStop
<1>4. CASE ReloadStart
  BY <1>4, <1>a DEF ReloadStart
<1>5. CASE ServerStop
  BY <1>5, <1>a DEF ServerStop
<1>6. CASE ReleaseStream
  BY <1>6, <1>a DEF ReleaseStream
<1>7. CASE TakeHoldings
  BY <1>7, <1>a DEF TakeHoldings
<1>8. CASE ReleaseDevice
  BY <1>8, <1>a DEF ReleaseDevice
<1>9. CASE OpenProvider
  BY <1>9, <1>a DEF OpenProvider
<1>10. CASE RememberOpenedDevice
  BY <1>10, <1>a DEF RememberOpenedDevice
<1>11. CASE CloseStopVideo
  BY <1>11, <1>a DEF CloseStopVideo
<1>12. CASE CloseAtProvider
  BY <1>12, <1>a DEF CloseAtProvider
<1>13. CASE ForgetOpenedDevice
  BY <1>13, <1>a DEF ForgetOpenedDevice
<1>14. CASE StartVideo
  BY <1>14, <1>a DEF StartVideo
<1>15. CASE UpdateStreamFormat
  BY <1>15, <1>a DEF UpdateStreamFormat
<1>16. CASE StartReply
  BY <1>16, <1>a DEF StartReply
<1>17. CASE StopAtProvider
  BY <1>17, <1>a DEF StopAtProvider
<1>18. CASE StopUnbind
  BY <1>18, <1>a DEF StopUnbind
<1>19. ASSUME NEW c \in Conns, CreateSession(c) PROVE PreviewInv'
  BY <1>19, <1>a DEF CreateSession
<1>20. ASSUME NEW c \in Conns, DestroySession(c) PROVE PreviewInv'
  BY <1>20, <1>a DEF DestroySession
<1>21. ASSUME NEW c \in Conns, Disconnect(c) PROVE PreviewInv'
  BY <1>21, <1>a DEF Disconnect
<1>22. ASSUME NEW c \in Conns, NEW d \in Devices, DeviceOpen(c, d) PROVE PreviewInv'
  BY <1>22, <1>a DEF DeviceOpen
<1>23. ASSUME NEW c \in Conns, NEW d \in Devices, DeviceClose(c, d) PROVE PreviewInv'
  BY <1>23, <1>a DEF DeviceClose
<1>24. ASSUME NEW c \in Conns, NEW d \in Devices, VideoStart(c, d) PROVE PreviewInv'
  BY <1>24, <1>a DEF VideoStart
<1>25. ASSUME NEW c \in Conns, NEW d \in Devices, VideoStop(c, d) PROVE PreviewInv'
  BY <1>25, <1>a DEF VideoStop
<1>26. ASSUME NEW d \in Devices, MarkRemoved(d) PROVE PreviewInv'
  BY <1>26, <1>a DEF MarkRemoved
<1>27. ASSUME NEW d \in Devices, AddedAgain(d) PROVE PreviewInv'
  BY <1>27, <1>a DEF AddedAgain
<1>28. ASSUME NEW d \in Devices, ForgetEverywhere(d) PROVE PreviewInv'
  BY <1>28, <1>a DEF ForgetEverywhere
<1>29. ASSUME NEW d \in Devices, ClearDevice(d) PROVE PreviewInv'
  BY <1>29, <1>a DEF ClearDevice
<1>30. ASSUME NEW d \in Devices, EndThread(d) PROVE PreviewInv'
  BY <1>30, <1>a DEF EndThread
<1>31. CASE UNCHANGED vars
  BY <1>31, <1>a DEF vars, server, provider
<1> QED
  BY <1>1, <1>2, <1>3, <1>4, <1>5, <1>6, <1>7, <1>8, <1>9, <1>10, <1>11, <1>12, <1>13,
     <1>14, <1>15, <1>16, <1>17, <1>18, <1>19, <1>20, <1>21, <1>22, <1>23, <1>24, <1>25,
     <1>26, <1>27, <1>28, <1>29, <1>30, <1>31
     DEF Next, IoStep, RemovalStep

LEMMA FreshnessKept ==
  ASSUME TypeOK, HandlerInv, FreshInv, ~TlsEnabled, [Next]_vars
  PROVE  FreshInv'
<1> USE DEF FreshInv, Holds, BindingsOf, Ids, Idle, Run, At, Goto, Finish, Ready, Serving,
            server, provider, TakeStreams, StopStream
<1>a. /\ io \in IoSet /\ nextConn \in 1..(MaxConns + 1) /\ connected \subseteq Conns
      /\ opened \in [Conns -> SUBSET Devices] /\ session \in [Conns -> Scopes \cup {NoSession}]
  BY DEF TypeOK, IoSet, HandlerInv
<1> USE DEF IoSet, Conns
<1>1. CASE Connect
  BY <1>1, <1>a, DeviceSessionAssumption DEF Connect
<1>2. CASE Shutdown
  BY <1>2, <1>a, DeviceSessionAssumption DEF Shutdown
<1>3. CASE ReloadStop
  BY <1>3, <1>a, DeviceSessionAssumption DEF ReloadStop
<1>4. CASE ReloadStart
  BY <1>4, <1>a, DeviceSessionAssumption DEF ReloadStart
<1>5. CASE ServerStop
  BY <1>5, <1>a, DeviceSessionAssumption DEF ServerStop
<1>6. CASE ReleaseStream
  BY <1>6, <1>a, DeviceSessionAssumption DEF ReleaseStream
<1>7. CASE TakeHoldings
  BY <1>7, <1>a, DeviceSessionAssumption DEF TakeHoldings
<1>8. CASE ReleaseDevice
  BY <1>8, <1>a, DeviceSessionAssumption DEF ReleaseDevice
<1>9. CASE OpenProvider
  BY <1>9, <1>a, DeviceSessionAssumption DEF OpenProvider
<1>10. CASE RememberOpenedDevice
  BY <1>10, <1>a, DeviceSessionAssumption DEF RememberOpenedDevice
<1>11. CASE CloseStopVideo
  BY <1>11, <1>a, DeviceSessionAssumption DEF CloseStopVideo
<1>12. CASE CloseAtProvider
  BY <1>12, <1>a, DeviceSessionAssumption DEF CloseAtProvider
<1>13. CASE ForgetOpenedDevice
  BY <1>13, <1>a, DeviceSessionAssumption DEF ForgetOpenedDevice
<1>14. CASE StartVideo
  BY <1>14, <1>a, DeviceSessionAssumption DEF StartVideo
<1>15. CASE UpdateStreamFormat
  <2>1. \A e \in Conns : io.conn # e => io'.conn # e
    BY <1>15, StartAnswers
  <2> QED BY <1>15, <2>1 DEF UpdateStreamFormat
<1>16. CASE StartReply
  BY <1>16, <1>a, DeviceSessionAssumption DEF StartReply
<1>17. CASE StopAtProvider
  BY <1>17, <1>a, DeviceSessionAssumption DEF StopAtProvider
<1>18. CASE StopUnbind
  BY <1>18, <1>a, DeviceSessionAssumption DEF StopUnbind
<1>19. ASSUME NEW c \in Conns, CreateSession(c) PROVE FreshInv'
  BY <1>19, <1>a, DeviceSessionAssumption DEF CreateSession
<1>20. ASSUME NEW c \in Conns, DestroySession(c) PROVE FreshInv'
  BY <1>20, <1>a, DeviceSessionAssumption DEF DestroySession
<1>21. ASSUME NEW c \in Conns, Disconnect(c) PROVE FreshInv'
  BY <1>21, <1>a, DeviceSessionAssumption DEF Disconnect
<1>22. ASSUME NEW c \in Conns, NEW d \in Devices, DeviceOpen(c, d) PROVE FreshInv'
  BY <1>22, <1>a, DeviceSessionAssumption DEF DeviceOpen
<1>23. ASSUME NEW c \in Conns, NEW d \in Devices, DeviceClose(c, d) PROVE FreshInv'
  BY <1>23, <1>a, DeviceSessionAssumption DEF DeviceClose
<1>24. ASSUME NEW c \in Conns, NEW d \in Devices, VideoStart(c, d) PROVE FreshInv'
  BY <1>24, <1>a, DeviceSessionAssumption DEF VideoStart
<1>25. ASSUME NEW c \in Conns, NEW d \in Devices, VideoStop(c, d) PROVE FreshInv'
  BY <1>25, <1>a, DeviceSessionAssumption DEF VideoStop
<1>26. ASSUME NEW d \in Devices, MarkRemoved(d) PROVE FreshInv'
  BY <1>26, <1>a, DeviceSessionAssumption DEF MarkRemoved
<1>27. ASSUME NEW d \in Devices, AddedAgain(d) PROVE FreshInv'
  BY <1>27, <1>a, DeviceSessionAssumption DEF AddedAgain
<1>28. ASSUME NEW d \in Devices, ForgetEverywhere(d) PROVE FreshInv'
  BY <1>28, <1>a, DeviceSessionAssumption DEF ForgetEverywhere
<1>29. ASSUME NEW d \in Devices, ClearDevice(d) PROVE FreshInv'
  BY <1>29, <1>a, DeviceSessionAssumption DEF ClearDevice
<1>30. ASSUME NEW d \in Devices, EndThread(d) PROVE FreshInv'
  BY <1>30, <1>a, DeviceSessionAssumption DEF EndThread
<1>31. CASE UNCHANGED vars
  BY <1>31, <1>a, DeviceSessionAssumption DEF vars, server, provider
<1> QED
  BY <1>1, <1>2, <1>3, <1>4, <1>5, <1>6, <1>7, <1>8, <1>9, <1>10, <1>11, <1>12, <1>13,
     <1>14, <1>15, <1>16, <1>17, <1>18, <1>19, <1>20, <1>21, <1>22, <1>23, <1>24, <1>25,
     <1>26, <1>27, <1>28, <1>29, <1>30, <1>31
     DEF Next, IoStep, RemovalStep

-----------------------------------------------------------------------------
LEMMA InitInv == Init => Inv
<1> SUFFICES ASSUME Init PROVE Inv
  OBVIOUS
<1> USE DEF Init
<1>1. TypeOK
  BY DeviceSessionAssumption DEF TypeOK, Idle, Conns
<1>2. HandlerInv /\ ReleaseInv
  BY DEF HandlerInv, ReleaseInv, Idle
<1>3. HoldersInv
  BY DEF HoldersInv, Holds, BindingsOf
<1>4. HeldInv /\ PreviewInv
  BY DEF HeldInv, PreviewInv, At, Idle, Running
<1>5. FreshInv
  BY DEF FreshInv, Holds, BindingsOf, Idle, Conns
<1> QED BY <1>1, <1>2, <1>3, <1>4, <1>5 DEF Inv

LEMMA NextInv == Inv /\ [Next]_vars => Inv'
<1> SUFFICES ASSUME Inv, [Next]_vars PROVE Inv'
  OBVIOUS
<1>1. TypeOK /\ HandlerInv /\ ReleaseInv /\ HoldersInv /\ HeldInv /\ PreviewInv /\ FreshInv
  BY DEF Inv
<1>2. TypeOK' /\ HandlerInv' /\ ReleaseInv'
  BY <1>1, TypeKept, HandlersKept, ReleasesKept
<1>3. HoldersInv' /\ HeldInv' /\ PreviewInv'
  BY <1>1, HoldersKept, HoldingsKept, PreviewsKept
<1>4. FreshInv'
  <2>1. CASE TlsEnabled
    BY <2>1 DEF FreshInv
  <2>2. CASE ~TlsEnabled
    BY <1>1, <2>2, FreshnessKept
  <2> QED BY <2>1, <2>2
<1> QED BY <1>2, <1>3, <1>4 DEF Inv

LEMMA Invariance == Spec => []Inv
<1>1. Init => Inv
  BY InitInv
<1>2. Inv /\ [Next]_vars => Inv'
  BY NextInv
<1> QED BY <1>1, <1>2, PTL DEF Spec

\* The tables of the service and of the provider have the types their declarations give
\* them, and a removed device is never open.
THEOREM TypeCorrect == Spec => []TypeOK
<1>1. Inv => TypeOK
  BY DEF Inv
<1> QED BY <1>1, Invariance, PTL

\* OnConnectionClosed leaves no opened device and no stream binding behind, whatever was
\* half done when the connection ended.
THEOREM ClosedReleased == Spec => []ClosedHoldNothing
<1>1. Inv => ClosedHoldNothing
  BY DEF Inv, HoldersInv, ClosedHoldNothing, Ids
<1> QED BY <1>1, Invariance, PTL

\* A device open at the provider is in the record of a connection, in the hands of the
\* running handler, or one of those a late removal report took out of the record.
THEOREM OpenDevicesHeld == Spec => []OpenDevicesAreHeld
<1>1. Inv => OpenDevicesAreHeld
  BY DEF Inv, HeldInv, Held, OpenDevicesAreHeld, InFlight
<1> QED BY <1>1, Invariance, PTL

\* A running preview is stopped at the end of some connection, or by a removal: its device
\* is open, so the device's holder stops it.
THEOREM PreviewsStoppable == Spec => []PreviewsCanBeStopped
<1>1. Inv => PreviewsCanBeStopped
  <2> SUFFICES ASSUME Inv, NEW d \in Devices, Running(d), removal[d] = "none"
               PROVE  InFlight(d) \/ d \in unclaimed \/ \E c \in Conns : d \in opened[c]
    BY DEF PreviewsCanBeStopped
  <2>1. d \in openDev
    BY DEF Inv, PreviewInv
  <2> QED BY <2>1 DEF Inv, HeldInv, Held, InFlight
<1> QED BY <1>1, Invariance, PTL

LEMMA NewConnection ==
  ASSUME ~TlsEnabled, Inv, [Next]_vars, NEW c \in connected' \ connected
  PROVE  session[c] = NoSession /\ ~Holds(c)
<1> USE DEF Ready, Run, Finish, Goto, server, provider
<1>1. CASE Connect
  <2>1. c = nextConn /\ nextConn \in Conns /\ nextConn \in Nat
    BY <1>1 DEF Connect, Inv, TypeOK, Conns
  <2> QED BY <2>1 DEF Inv, FreshInv
<1>2. CASE ~Connect
  BY <1>2 DEF Next, IoStep, RemovalStep, vars, Shutdown, ReloadStop, ReloadStart, ServerStop,
     ReleaseStream, TakeHoldings, ReleaseDevice, OpenProvider, RememberOpenedDevice,
     CloseStopVideo, CloseAtProvider, ForgetOpenedDevice, StartVideo, UpdateStreamFormat,
     StartReply, StopAtProvider, StopUnbind, CreateSession, DestroySession, Disconnect,
     DeviceOpen, DeviceClose, VideoStart, VideoStop, MarkRemoved, AddedAgain,
     ForgetEverywhere, ClearDevice, EndThread
<1> QED BY <1>1, <1>2

\* Where the listeners are never reloaded, a new connection finds nothing of another one:
\* what run tls_reload_ids shows broken comes from the reload, which numbers the
\* connections from 1 again, and from nothing else.
THEOREM CleanWithoutReload ==
  ASSUME ~TlsEnabled
  PROVE  Spec => NewConnectionsStartClean
<1>1. Inv /\ [Next]_vars =>
        [\A c \in connected' \ connected : session[c] = NoSession /\ ~Holds(c)]_vars
  BY NewConnection
<1> QED BY <1>1, Invariance, PTL DEF Spec, NewConnectionsStartClean

-----------------------------------------------------------------------------
(***************************************************************************)
(* The other things a connection holds: the watches and the opened sources *)
(* of ScannerSessions, which names its connections and its cleanup apart   *)
(* from DeviceSession's.                                                   *)
(***************************************************************************)

\* What the running cleanup knows.
CleanupInv ==
  /\ cleanup.at \in {"idle", "watches", "sessions"} => cleanup.todo = {}
  /\ cleanup.op = "none" <=> cleanup.at = "idle"
  /\ cleanup.op = "none" => cleanup = NoCleanup
  /\ cleanup.op = "gone" => cleanup.conn \in Clients
  /\ cleanup.op = "shutdown" => serverPhase # "up"

\* The close handler of c has still to do what it does at one of these places.
Ahead(c, places) ==
  cleanup.op = "gone" /\ cleanup.conn = c /\ cleanup.at \in places

\* A watch is remembered until it has been stopped, or has refused to stop.
WatchInv ==
  /\ \A p \in Protocols : watching[p] \subseteq remembered[p] \cup unstopped[p]
  /\ \A c \in Clients : conn[c] = "gone" /\ ~Ahead(c, {"watches"}) =>
       \A p \in Protocols : c \notin remembered[p]

\* Only sources that hung go back to the record of a connection that is gone.
RecordInv ==
  \A c \in Clients : conn[c] = "gone" /\ ~Ahead(c, {"watches", "sessions"}) =>
    record[c] \subseteq stuck

ScannerInv ==
  ScannerTypeOK /\ CleanupInv /\ WatchInv /\ RecordInv /\ OpenSourcesAreRecorded

\* The values of the io thread's state.
CleanupSet ==
  [op : {"none", "gone", "shutdown"}, conn : Clients \cup {NoClient},
   at : {"idle", "watches", "sessions", "cancel", "wait", "close"},
   todo : SUBSET Sources, wait : SUBSET Sources, polls : 0..MaxPolls]

\* What StopWatches leaves: nobody that closes is remembered, and a watch that goes on has
\* refused to stop.
LEMMA StopsWatches ==
  ASSUME NEW closing, ScannerTypeOK, WatchInv, StopWatches(closing)
  PROVE  \A p \in Protocols : /\ remembered'[p] = remembered[p] \ closing
                              /\ watching'[p] \subseteq remembered'[p] \cup unstopped'[p]
<1> SUFFICES ASSUME NEW p \in Protocols
             PROVE  /\ remembered'[p] = remembered[p] \ closing
                    /\ watching'[p] \subseteq remembered'[p] \cup unstopped'[p]
  OBVIOUS
<1>1. PICK stops \in SUBSET (remembered[p] \cap closing) :
        /\ watching'[p] = watching[p] \ stops
        /\ unstopped'[p] = unstopped[p] \cup ((remembered[p] \cap closing) \ stops)
  BY DEF StopWatches
<1>2. remembered'[p] = remembered[p] \ closing
  BY DEF StopWatches
<1>3. watching[p] \subseteq remembered[p] \cup unstopped[p]
  BY DEF WatchInv
<1> QED BY <1>1, <1>2, <1>3

LEMMA ScannerTyped ==
  ASSUME ScannerTypeOK, CleanupInv, [ScannerNext]_scannerVars
  PROVE  ScannerTypeOK'
<1> USE DEF ScannerTypeOK, watches, sources, Request,
            MayRequest, Proceed, NoCleanup, RememberWatchConnection,
            ForgetWatchConnection, RememberOpenedTwainSession,
            ForgetOpenedTwainSession, Cancelled, Seen,
            StopWatches, ClearOpenedTwainSessions, ActiveTasks,
            PollsLeft, NextPoll, AllTerminal, KeepSession
<1>1. ASSUME NEW c \in Clients, ClientConnects(c) PROVE ScannerTypeOK'
  BY <1>1 DEF ClientConnects
<1>2. ASSUME NEW c \in Clients, ClientLeaves(c) PROVE ScannerTypeOK'
  BY <1>2, ScannerAssumption DEF ClientLeaves
<1>3. ASSUME NEW c \in Clients, NEW p \in Protocols, WatchStart(c, p)
      PROVE  ScannerTypeOK'
  BY <1>3 DEF WatchStart
<1>4. ASSUME NEW c \in Clients, NEW p \in Protocols, WatchStop(c, p)
      PROVE  ScannerTypeOK'
  BY <1>4 DEF WatchStop
<1>5. ASSUME NEW c \in Clients, NEW s \in Sources, TwainOpen(c, s)
      PROVE  ScannerTypeOK'
  BY <1>5 DEF TwainOpen
<1>6. ASSUME NEW c \in Clients, NEW s \in Sources, TwainClose(c, s)
      PROVE  ScannerTypeOK'
  BY <1>6 DEF TwainClose
<1>7. ASSUME NEW c \in Clients, NEW s \in Sources, TwainScan(c, s)
      PROVE  ScannerTypeOK'
  BY <1>7 DEF TwainScan
<1>8. ASSUME NEW c \in Clients, NEW s \in Sources, TwainScanCancel(c, s)
      PROVE  ScannerTypeOK'
  BY <1>8 DEF TwainScanCancel
<1>9. ASSUME NEW s \in Sources, ScanEnds(s) PROVE ScannerTypeOK'
  BY <1>9 DEF ScanEnds
<1>10. ASSUME NEW s \in Sources, ScanSeen(s) PROVE ScannerTypeOK'
  BY <1>10 DEF ScanSeen
<1>11. CASE ShutdownSessions
  BY <1>11, ScannerAssumption DEF ShutdownSessions
<1>12. CASE ForgetWatches
  BY <1>12 DEF ForgetWatches
<1>13. CASE TakeSessions
  <2> DEFINE owners == IF cleanup.op = "shutdown" THEN Clients ELSE {cleanup.conn}
  <2>1. owners \subseteq Clients
    BY <1>13 DEF TakeSessions, CleanupInv
  <2>2. UNION {record[c] : c \in owners} \subseteq Sources
    BY <2>1
  <2>3. cleanup' = [cleanup EXCEPT !.at = "cancel", !.todo = UNION {record[c] : c \in owners}]
    BY <1>13 DEF TakeSessions
  <2>4. /\ record' \in [Clients -> SUBSET Sources]
        /\ UNCHANGED <<serverPhase, conn, known, remembered, watching, unstopped, used, source,
                       table, stuck>>
    BY <1>13 DEF TakeSessions
  <2> HIDE DEF owners
  <2> QED BY <2>2, <2>3, <2>4
<1>14. CASE CancelActiveTasks
  BY <1>14 DEF CancelActiveTasks
<1>15. CASE PollTasks
  BY <1>15, ScannerAssumption DEF PollTasks
<1>16. CASE WaitIsOver
  BY <1>16 DEF WaitIsOver
<1>17. CASE CloseSource
  BY <1>17 DEF CloseSource
<1>18. CASE CloseFails
  <2>1. PICK s \in cleanup.todo : /\ record' = KeepSession(s)
                                    /\ stuck' = stuck \cup {s}
                                    /\ cleanup' = [cleanup EXCEPT !.todo = @ \ {s}]
    BY <1>18 DEF CloseFails
  <2>2. s \in Sources
    OBVIOUS
  <2>3. record' \in [Clients -> SUBSET Sources]
    BY <2>1, <2>2
  <2>4. UNCHANGED <<serverPhase, conn, known, remembered, watching, unstopped, used, source, table>>
    BY <1>18 DEF CloseFails
  <2> QED BY <2>1, <2>2, <2>3, <2>4
<1>19. CASE CleanupDone
  BY <1>19, ScannerAssumption DEF CleanupDone
<1>20. CASE ServerStops
  BY <1>20 DEF ServerStops
<1>21. CASE UNCHANGED scannerVars
  BY <1>21 DEF scannerVars
<1> HIDE DEF ScannerTypeOK
<1> QED
  BY <1>1, <1>2, <1>3, <1>4, <1>5, <1>6, <1>7, <1>8, <1>9, <1>10, <1>11, <1>12, <1>13,
     <1>14, <1>15, <1>16, <1>17, <1>18, <1>19, <1>20, <1>21
     DEF ScannerNext, CleanupStep

LEMMA CleanupKept ==
  ASSUME ScannerTypeOK, CleanupInv, [ScannerNext]_scannerVars
  PROVE  CleanupInv'
<1> USE DEF CleanupInv, watches, sources, Request, MayRequest,
            Proceed, NoCleanup
<1>a. cleanup \in CleanupSet
  BY DEF ScannerTypeOK, CleanupSet
<1> USE DEF CleanupSet
<1>1. ASSUME NEW c \in Clients, ClientConnects(c) PROVE CleanupInv'
  BY <1>1, <1>a DEF ClientConnects
<1>2. ASSUME NEW c \in Clients, ClientLeaves(c) PROVE CleanupInv'
  BY <1>2, <1>a DEF ClientLeaves
<1>3. ASSUME NEW c \in Clients, NEW p \in Protocols, WatchStart(c, p) PROVE CleanupInv'
  BY <1>3, <1>a DEF WatchStart
<1>4. ASSUME NEW c \in Clients, NEW p \in Protocols, WatchStop(c, p) PROVE CleanupInv'
  BY <1>4, <1>a DEF WatchStop
<1>5. ASSUME NEW c \in Clients, NEW s \in Sources, TwainOpen(c, s) PROVE CleanupInv'
  BY <1>5, <1>a DEF TwainOpen
<1>6. ASSUME NEW c \in Clients, NEW s \in Sources, TwainClose(c, s) PROVE CleanupInv'
  BY <1>6, <1>a DEF TwainClose
<1>7. ASSUME NEW c \in Clients, NEW s \in Sources, TwainScan(c, s) PROVE CleanupInv'
  BY <1>7, <1>a DEF TwainScan
<1>8. ASSUME NEW c \in Clients, NEW s \in Sources, TwainScanCancel(c, s)
      PROVE  CleanupInv'
  BY <1>8, <1>a DEF TwainScanCancel
<1>9. ASSUME NEW s \in Sources, ScanEnds(s) PROVE CleanupInv'
  BY <1>9, <1>a DEF ScanEnds
<1>10. ASSUME NEW s \in Sources, ScanSeen(s) PROVE CleanupInv'
  BY <1>10, <1>a DEF ScanSeen
<1>11. CASE ShutdownSessions
  BY <1>11, <1>a DEF ShutdownSessions
<1>12. CASE ForgetWatches
  BY <1>12, <1>a DEF ForgetWatches
<1>13. CASE TakeSessions
  BY <1>13, <1>a DEF TakeSessions
<1>14. CASE CancelActiveTasks
  BY <1>14, <1>a DEF CancelActiveTasks
<1>15. CASE PollTasks
  BY <1>15, <1>a DEF PollTasks
<1>16. CASE WaitIsOver
  BY <1>16, <1>a DEF WaitIsOver
<1>17. CASE CloseSource
  BY <1>17, <1>a DEF CloseSource
<1>18. CASE CloseFails
  BY <1>18, <1>a DEF CloseFails
<1>19. CASE CleanupDone
  BY <1>19, <1>a DEF CleanupDone
<1>20. CASE ServerStops
  BY <1>20, <1>a DEF ServerStops
<1>21. CASE UNCHANGED scannerVars
  BY <1>21, <1>a DEF scannerVars
<1> HIDE DEF CleanupInv
<1> QED
  BY <1>1, <1>2, <1>3, <1>4, <1>5, <1>6, <1>7, <1>8, <1>9, <1>10, <1>11, <1>12, <1>13,
     <1>14, <1>15, <1>16, <1>17, <1>18, <1>19, <1>20, <1>21
     DEF ScannerNext, CleanupStep

LEMMA WatchesKept ==
  ASSUME ScannerTypeOK, CleanupInv, WatchInv, [ScannerNext]_scannerVars
  PROVE  WatchInv'
<1> USE DEF WatchInv, Ahead, watches, sources, Request,
            MayRequest, Proceed, NoCleanup, RememberWatchConnection,
            ForgetWatchConnection
<1>a. /\ cleanup \in CleanupSet /\ conn \in [Clients -> {"new", "open", "gone"}]
      /\ remembered \in [Protocols -> SUBSET Clients] /\ watching \in [Protocols -> SUBSET Clients]
      /\ unstopped \in [Protocols -> SUBSET Clients]
  BY DEF ScannerTypeOK, CleanupSet
<1> USE DEF CleanupSet
<1>1. ASSUME NEW c \in Clients, ClientConnects(c) PROVE WatchInv'
  BY <1>1, <1>a DEF ClientConnects
<1>2. ASSUME NEW c \in Clients, ClientLeaves(c) PROVE WatchInv'
  BY <1>2, <1>a DEF ClientLeaves
<1>3. ASSUME NEW c \in Clients, NEW p \in Protocols, WatchStart(c, p) PROVE WatchInv'
  BY <1>3, <1>a DEF WatchStart
<1>4. ASSUME NEW c \in Clients, NEW p \in Protocols, WatchStop(c, p) PROVE WatchInv'
  BY <1>4, <1>a DEF WatchStop
<1>5. ASSUME NEW c \in Clients, NEW s \in Sources, TwainOpen(c, s) PROVE WatchInv'
  BY <1>5, <1>a DEF TwainOpen
<1>6. ASSUME NEW c \in Clients, NEW s \in Sources, TwainClose(c, s) PROVE WatchInv'
  BY <1>6, <1>a DEF TwainClose
<1>7. ASSUME NEW c \in Clients, NEW s \in Sources, TwainScan(c, s) PROVE WatchInv'
  BY <1>7, <1>a DEF TwainScan
<1>8. ASSUME NEW c \in Clients, NEW s \in Sources, TwainScanCancel(c, s)
      PROVE  WatchInv'
  BY <1>8, <1>a DEF TwainScanCancel
<1>9. ASSUME NEW s \in Sources, ScanEnds(s) PROVE WatchInv'
  BY <1>9, <1>a DEF ScanEnds
<1>10. ASSUME NEW s \in Sources, ScanSeen(s) PROVE WatchInv'
  BY <1>10, <1>a DEF ScanSeen
<1>11. CASE ShutdownSessions
  BY <1>11, <1>a DEF ShutdownSessions
<1>12. CASE ForgetWatches
  <2>1. StopWatches({cleanup.conn}) /\ cleanup.op = "gone" /\ UNCHANGED conn
    BY <1>12 DEF ForgetWatches
  <2>2. /\ \A p \in Protocols : remembered'[p] = remembered[p] \ {cleanup.conn}
        /\ \A p \in Protocols : watching'[p] \subseteq remembered'[p] \cup unstopped'[p]
    BY <1>a, <2>1, StopsWatches
  <2>3. \A c \in Clients : Ahead(c, {"watches"}) => c = cleanup.conn
    BY DEF Ahead
  <2> QED BY <2>1, <2>2, <2>3
<1>13. CASE TakeSessions
  BY <1>13, <1>a DEF TakeSessions
<1>14. CASE CancelActiveTasks
  BY <1>14, <1>a DEF CancelActiveTasks
<1>15. CASE PollTasks
  BY <1>15, <1>a DEF PollTasks
<1>16. CASE WaitIsOver
  BY <1>16, <1>a DEF WaitIsOver
<1>17. CASE CloseSource
  BY <1>17, <1>a DEF CloseSource
<1>18. CASE CloseFails
  BY <1>18, <1>a DEF CloseFails
<1>19. CASE CleanupDone
  <2>1. /\ StopWatches(known) \/ UNCHANGED <<remembered, watching, unstopped>>
        /\ cleanup.at = "close" /\ UNCHANGED conn
    BY <1>19 DEF CleanupDone
  <2>2. /\ \A p \in Protocols : remembered'[p] \subseteq remembered[p]
        /\ \A p \in Protocols : watching'[p] \subseteq remembered'[p] \cup unstopped'[p]
    BY <1>a, <2>1, StopsWatches
  <2> QED BY <2>1, <2>2 DEF Ahead
<1>20. CASE ServerStops
  BY <1>20, <1>a DEF ServerStops
<1>21. CASE UNCHANGED scannerVars
  BY <1>21, <1>a DEF scannerVars
<1> HIDE DEF WatchInv
<1> QED
  BY <1>1, <1>2, <1>3, <1>4, <1>5, <1>6, <1>7, <1>8, <1>9, <1>10, <1>11, <1>12, <1>13,
     <1>14, <1>15, <1>16, <1>17, <1>18, <1>19, <1>20, <1>21
     DEF ScannerNext, CleanupStep

LEMMA RecordsKept ==
  ASSUME ScannerTypeOK, CleanupInv, RecordInv, [ScannerNext]_scannerVars
  PROVE  RecordInv'
<1> USE DEF RecordInv, Ahead, watches, sources, Request,
            MayRequest, Proceed, NoCleanup, RememberOpenedTwainSession,
            ForgetOpenedTwainSession, ClearOpenedTwainSessions,
            KeepSession
<1>a. /\ cleanup \in CleanupSet /\ conn \in [Clients -> {"new", "open", "gone"}]
      /\ record \in [Clients -> SUBSET Sources]
      /\ cleanup.op = "gone" => cleanup.conn \in Clients
      /\ cleanup.op = "none" <=> cleanup.at = "idle"
  BY DEF ScannerTypeOK, CleanupSet, CleanupInv
<1> USE DEF CleanupSet
<1>1. ASSUME NEW c \in Clients, ClientConnects(c) PROVE RecordInv'
  BY <1>1, <1>a DEF ClientConnects
<1>2. ASSUME NEW c \in Clients, ClientLeaves(c) PROVE RecordInv'
  BY <1>2, <1>a DEF ClientLeaves
<1>3. ASSUME NEW c \in Clients, NEW p \in Protocols, WatchStart(c, p) PROVE RecordInv'
  BY <1>3, <1>a DEF WatchStart
<1>4. ASSUME NEW c \in Clients, NEW p \in Protocols, WatchStop(c, p) PROVE RecordInv'
  BY <1>4, <1>a DEF WatchStop
<1>5. ASSUME NEW c \in Clients, NEW s \in Sources, TwainOpen(c, s) PROVE RecordInv'
  BY <1>5, <1>a DEF TwainOpen
<1>6. ASSUME NEW c \in Clients, NEW s \in Sources, TwainClose(c, s) PROVE RecordInv'
  BY <1>6, <1>a DEF TwainClose
<1>7. ASSUME NEW c \in Clients, NEW s \in Sources, TwainScan(c, s) PROVE RecordInv'
  BY <1>7, <1>a DEF TwainScan
<1>8. ASSUME NEW c \in Clients, NEW s \in Sources, TwainScanCancel(c, s)
      PROVE  RecordInv'
  BY <1>8, <1>a DEF TwainScanCancel
<1>9. ASSUME NEW s \in Sources, ScanEnds(s) PROVE RecordInv'
  BY <1>9, <1>a DEF ScanEnds
<1>10. ASSUME NEW s \in Sources, ScanSeen(s) PROVE RecordInv'
  BY <1>10, <1>a DEF ScanSeen
<1>11. CASE ShutdownSessions
  BY <1>11, <1>a DEF ShutdownSessions
<1>12. CASE ForgetWatches
  BY <1>12, <1>a DEF ForgetWatches
<1>13. CASE TakeSessions
  BY <1>13, <1>a DEF TakeSessions
<1>14. CASE CancelActiveTasks
  BY <1>14, <1>a DEF CancelActiveTasks
<1>15. CASE PollTasks
  BY <1>15, <1>a DEF PollTasks
<1>16. CASE WaitIsOver
  BY <1>16, <1>a DEF WaitIsOver
<1>17. CASE CloseSource
  BY <1>17, <1>a DEF CloseSource
<1>18. CASE CloseFails
  BY <1>18, <1>a DEF CloseFails
<1>19. CASE CleanupDone
  BY <1>19, <1>a DEF CleanupDone
<1>20. CASE ServerStops
  BY <1>20, <1>a DEF ServerStops
<1>21. CASE UNCHANGED scannerVars
  BY <1>21, <1>a DEF scannerVars
<1> HIDE DEF RecordInv
<1> QED
  BY <1>1, <1>2, <1>3, <1>4, <1>5, <1>6, <1>7, <1>8, <1>9, <1>10, <1>11, <1>12, <1>13,
     <1>14, <1>15, <1>16, <1>17, <1>18, <1>19, <1>20, <1>21
     DEF ScannerNext, CleanupStep

LEMMA SourcesKept ==
  ASSUME ScannerTypeOK, CleanupInv, OpenSourcesAreRecorded, [ScannerNext]_scannerVars
  PROVE  OpenSourcesAreRecorded'
<1> USE DEF OpenSourcesAreRecorded, Opened, watches,
            sources, Request, MayRequest, Proceed, NoCleanup,
            RememberOpenedTwainSession, ForgetOpenedTwainSession,
            ClearOpenedTwainSessions, KeepSession, Cancelled
<1>a. /\ cleanup \in CleanupSet /\ record \in [Clients -> SUBSET Sources]
      /\ source \in [Sources -> {"closed", "open", "scanning", "cancelling"}]
      /\ CleanupInv
  BY DEF ScannerTypeOK, CleanupSet
<1> USE DEF CleanupSet, CleanupInv
<1>1. ASSUME NEW c \in Clients, ClientConnects(c) PROVE OpenSourcesAreRecorded'
  BY <1>1, <1>a DEF ClientConnects
<1>2. ASSUME NEW c \in Clients, ClientLeaves(c) PROVE OpenSourcesAreRecorded'
  BY <1>2, <1>a DEF ClientLeaves
<1>3. ASSUME NEW c \in Clients, NEW p \in Protocols, WatchStart(c, p)
      PROVE  OpenSourcesAreRecorded'
  BY <1>3, <1>a DEF WatchStart
<1>4. ASSUME NEW c \in Clients, NEW p \in Protocols, WatchStop(c, p)
      PROVE  OpenSourcesAreRecorded'
  BY <1>4, <1>a DEF WatchStop
<1>5. ASSUME NEW c \in Clients, NEW s \in Sources, TwainOpen(c, s)
      PROVE  OpenSourcesAreRecorded'
  BY <1>5, <1>a DEF TwainOpen
<1>6. ASSUME NEW c \in Clients, NEW s \in Sources, TwainClose(c, s)
      PROVE  OpenSourcesAreRecorded'
  BY <1>6, <1>a DEF TwainClose
<1>7. ASSUME NEW c \in Clients, NEW s \in Sources, TwainScan(c, s)
      PROVE  OpenSourcesAreRecorded'
  BY <1>7, <1>a DEF TwainScan
<1>8. ASSUME NEW c \in Clients, NEW s \in Sources, TwainScanCancel(c, s)
      PROVE  OpenSourcesAreRecorded'
  BY <1>8, <1>a DEF TwainScanCancel
<1>9. ASSUME NEW s \in Sources, ScanEnds(s) PROVE OpenSourcesAreRecorded'
  BY <1>9, <1>a DEF ScanEnds
<1>10. ASSUME NEW s \in Sources, ScanSeen(s) PROVE OpenSourcesAreRecorded'
  BY <1>10, <1>a DEF ScanSeen
<1>11. CASE ShutdownSessions
  BY <1>11, <1>a DEF ShutdownSessions
<1>12. CASE ForgetWatches
  BY <1>12, <1>a DEF ForgetWatches
<1>13. CASE TakeSessions
  BY <1>13, <1>a DEF TakeSessions
<1>14. CASE CancelActiveTasks
  BY <1>14, <1>a DEF CancelActiveTasks
<1>15. CASE PollTasks
  BY <1>15, <1>a DEF PollTasks
<1>16. CASE WaitIsOver
  BY <1>16, <1>a DEF WaitIsOver
<1>17. CASE CloseSource
  BY <1>17, <1>a DEF CloseSource
<1>18. CASE CloseFails
  BY <1>18, <1>a DEF CloseFails
<1>19. CASE CleanupDone
  BY <1>19, <1>a DEF CleanupDone
<1>20. CASE ServerStops
  BY <1>20, <1>a DEF ServerStops
<1>21. CASE UNCHANGED scannerVars
  BY <1>21, <1>a DEF scannerVars
<1> HIDE DEF OpenSourcesAreRecorded
<1> QED
  BY <1>1, <1>2, <1>3, <1>4, <1>5, <1>6, <1>7, <1>8, <1>9, <1>10, <1>11, <1>12, <1>13,
     <1>14, <1>15, <1>16, <1>17, <1>18, <1>19, <1>20, <1>21
     DEF ScannerNext, CleanupStep

LEMMA ScannerStarts == ASSUME ScannerInit PROVE ScannerInv
<1> USE DEF ScannerInit, NoCleanup
<1>1. ScannerTypeOK
  BY ScannerAssumption DEF ScannerTypeOK
<1>2. CleanupInv
  BY DEF CleanupInv
<1>3. WatchInv /\ RecordInv
  BY DEF WatchInv, RecordInv
<1>4. OpenSourcesAreRecorded
  BY DEF OpenSourcesAreRecorded, Opened
<1> QED BY <1>1, <1>2, <1>3, <1>4 DEF ScannerInv

LEMMA ScannerInvariance == ScannerSpec => []ScannerInv
<1>1. ScannerInit => ScannerInv
  BY ScannerStarts
<1>2. ScannerInv /\ [ScannerNext]_scannerVars => ScannerInv'
  <2> SUFFICES ASSUME ScannerInv, [ScannerNext]_scannerVars PROVE ScannerInv'
    OBVIOUS
  <2>1. ScannerTypeOK /\ CleanupInv /\ WatchInv /\ RecordInv /\ OpenSourcesAreRecorded
    BY DEF ScannerInv
  <2>2. ScannerTypeOK'
    BY <2>1, ScannerTyped
  <2>3. CleanupInv' /\ WatchInv' /\ RecordInv'
    BY <2>1, CleanupKept, WatchesKept, RecordsKept
  <2>4. OpenSourcesAreRecorded'
    BY <2>1, SourcesKept
  <2> QED BY <2>2, <2>3, <2>4 DEF ScannerInv
<1> QED BY <1>1, <1>2, PTL DEF ScannerSpec

\* The providers know no connection and no source that is not one, and WaitTwainTasksTerminal
\* never looks more often than it may.
THEOREM ScannerTypeCorrect == ScannerSpec => []ScannerTypeOK
<1>1. ScannerInv => ScannerTypeOK
  BY DEF ScannerInv
<1> QED BY <1>1, ScannerInvariance, PTL

\* OnConnectionClosed and ShutdownActiveSessions lose no TWAIN source, whoever closes it and
\* whichever close fails: an open one is in a record, in the hands of the cleanup, or has
\* hung in the shutdown.
THEOREM SourcesRecorded == ScannerSpec => []OpenSourcesAreRecorded
<1>1. ScannerInv => OpenSourcesAreRecorded
  BY DEF ScannerInv
<1> QED BY <1>1, ScannerInvariance, PTL

\* Once its close handler is through, a connection has no source but one that hung through
\* the whole wait, and no watch but one whose stop the provider refused.
THEOREM ConnectionsLeaveNothing == ScannerSpec => []GoneConnectionsHoldNothing
<1>1. ScannerInv => GoneConnectionsHoldNothing
  BY DEF ScannerInv, WatchInv, RecordInv, Ahead, GoneConnectionsHoldNothing
<1> QED BY <1>1, ScannerInvariance, PTL
=============================================================================
