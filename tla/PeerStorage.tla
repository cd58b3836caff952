----------------------------- MODULE PeerStorage ----------------------------
(***************************************************************************)
(* The addresses of other nodes (peer_storage_disk.go), with everybody who *)
(* uses them: the main loop of the peer manager, which stores addresses it *)
(* hears of and connects to stored ones (peer_manager.go), the handlers    *)
(* of inbound connections, which store the address the other side claims,  *)
(* and the writer goroutines of outbound connections, which refresh the    *)
(* time of the last success (peer.go).                                     *)
(*                                                                         *)
(* Every operation reads the record of an address and writes a batch       *)
(* later; other goroutines run in between. One unit of the clock is long   *)
(* enough for an address to be tried again, or to be given up, but need    *)
(* not be.                                                                 *)
(***************************************************************************)
EXTENDS Integers, Sequences, FiniteSets, Functions, SequencesExt

CONSTANTS
    Addr,            \* addresses, ordered as the keys that end in them
    Nil, Main,
    Handler,         \* inbound connections being set up
    Banned,          \* banMap
    Heard,           \* what may come through addrChan
    Claimed,         \* what the handlers may be told
    want,            \* 1 while syncing, then MAX_OUTBOUND_PEER_CONNECTIONS
    MaxClock, MaxCrashes

ASSUME StorageAssumption ==
    /\ Addr \subseteq Int /\ Banned \cup Heard \cup Claimed \subseteq Addr
    /\ Nil \notin Addr \cup Handler /\ Main \notin Handler
    /\ want \in Nat \ {0} /\ {MaxClock, MaxCrashes} \subseteq Nat

\* rand.Int63n(1 << 30): the random position of an address not tried yet. Times
\* of the clock are later.
Untried == 0..1
Clock == 2..MaxClock

VARIABLES
    records,         \* p{addr}: peerInfo, or Nil
    attempts,        \* a{time}{addr}
    successes,       \* s{time}{addr}
    connectedPeers,
    clock,
    op,              \* what each goroutine is in the middle of
    loop,            \* the main loop: "select", "get", "next", "dial" or "dead"
    addrs, tried,    \* of connectToPeers
    outPeers,
    conn,            \* addr -> the state of the connection made with it
    crashes

dbVars == <<records, attempts, successes>>
mainVars == <<loop, addrs, tried, outPeers>>
vars == <<dbVars, connectedPeers, clock, op, mainVars, conn, crashes>>

Actor == {Main} \cup Handler \cup Addr
Idle == [name |-> "none", addr |-> Nil, info |-> Nil]

Init ==
    /\ records = [a \in Addr |-> Nil]
    /\ attempts = {} /\ successes = {}
    /\ connectedPeers = {}
    /\ clock = 2
    /\ op = [x \in Actor |-> Idle]
    /\ loop = "select" /\ addrs = <<>> /\ tried = {} /\ outPeers = {}
    /\ conn = [a \in Addr |-> "none"]
    /\ crashes = 0

-----------------------------------------------------------------------------
(* peerInfo *)

neverTried(info) == info.LastAttempt \in Untried

\* shouldRetry and shouldDelete, up to what the clock leaves open.
mayRetry(info) == {neverTried(info)} \cup {info.LastAttempt < clock}
mayDelete(info) == {info.LastSuccess = 0} \cup {info.LastSuccess < clock}

-----------------------------------------------------------------------------
(* Operations: x reads a record, and goes on with it later *)

getPeerInfo(x, name, a) ==
    op' = [op EXCEPT ![x] = [name |-> name, addr |-> a, info |-> records[a]]]

ended(x) == op' = [op EXCEPT ![x] = Idle]

write(a, info) == records' = [records EXCEPT ![a] = info]

\* An address that is known is left alone.
Store(x) ==
    LET a == op[x].addr
    IN  /\ op[x].name = "Store"
        /\ IF op[x].info # Nil THEN UNCHANGED dbVars
           ELSE \E r \in Untried :
                /\ write(a, [LastAttempt |-> r, LastSuccess |-> 0])
                /\ attempts' = attempts \cup {<<r, a>>}
                /\ UNCHANGED successes

OnConnectAttempt(x) ==
    LET a == op[x].addr
        info == op[x].info
    IN  /\ op[x].name = "OnConnectAttempt"
        /\ IF info = Nil THEN UNCHANGED dbVars
           ELSE /\ write(a, [info EXCEPT !.LastAttempt = clock])
                /\ attempts' = (attempts \ {<<info.LastAttempt, a>>}) \cup {<<clock, a>>}
                /\ UNCHANGED successes


OnConnectSuccess(x) ==
    LET a == op[x].addr
        info == op[x].info
    IN  /\ op[x].name = "OnConnectSuccess"
        /\ IF info = Nil THEN UNCHANGED <<dbVars, connectedPeers>>
           ELSE /\ write(a, [info EXCEPT !.LastSuccess = clock])
                /\ successes' = (successes \ {<<info.LastSuccess, a>>}) \cup {<<clock, a>>}
                /\ connectedPeers' = connectedPeers \cup {a}
                /\ UNCHANGED attempts

\* Mutant: once connected, always connected.
OnDisconnectNever(a) == UNCHANGED connectedPeers

OnDisconnect(a) == connectedPeers' = connectedPeers \ {a}

deletePeer(a, info) ==
    /\ write(a, Nil)
    /\ attempts' = attempts \ {<<info.LastAttempt, a>>}
    /\ successes' = successes \ {<<info.LastSuccess, a>>}

\* The old record decides, also about what is deleted.
OnConnectFailure(x) ==
    LET info == op[x].info
    IN  /\ op[x].name = "OnConnectFailure"
        /\ \E delete \in IF info = Nil THEN {FALSE} ELSE mayDelete(info) :
               IF delete THEN deletePeer(op[x].addr, info) ELSE UNCHANGED dbVars

Delete(x) ==
    /\ op[x].name = "Delete"
    /\ IF op[x].info = Nil THEN UNCHANGED dbVars ELSE deletePeer(op[x].addr, op[x].info)

-----------------------------------------------------------------------------
(* The main loop of the peer manager *)

atSelect == loop = "select" /\ op[Main] = Idle

\* An address from addrChan; a banned one is dropped.
hear(a) ==
    /\ atSelect /\ a \in Heard \ Banned
    /\ getPeerInfo(Main, "Store", a)
    /\ UNCHANGED <<dbVars, connectedPeers, clock, mainVars, conn, crashes>>

heard ==
    /\ Store(Main)
    /\ ended(Main)
    /\ IF op[Main].info = Nil THEN loop' = "get" /\ tried' = {} ELSE UNCHANGED <<loop, tried>>
    /\ UNCHANGED <<connectedPeers, clock, addrs, outPeers, conn, crashes>>

ticker ==
    /\ atSelect
    /\ loop' = "get" /\ tried' = {}
    /\ UNCHANGED <<dbVars, connectedPeers, clock, op, addrs, outPeers, conn, crashes>>

\* Mutant: connected addresses are tried like others.
unconnectedAny(k) == k[1] < clock

unconnected(k) == k[1] < clock /\ k[2] \notin connectedPeers

\* Get: the entries in order of time, as far as they are due. An entry without a
\* record makes shouldRetry panic, when it is reached.
Get(need) ==
    LET before(k, l) == k[1] < l[1] \/ (k[1] = l[1] /\ k[2] < l[2])
        keys == SetToSortSeq({k \in attempts : unconnected(k)}, before)
    IN  \E retry \in [Addr -> BOOLEAN] :
        LET due == SelectSeq(keys, LAMBDA k : records[k[2]] = Nil \/ retry[k[2]])
            list == SubSeq(due, 1, IF Len(due) < need THEN Len(due) ELSE need)
        IN  /\ \A a \in Addr :
                  retry[a] \in IF records[a] = Nil THEN {FALSE} ELSE mayRetry(records[a])
            /\ addrs' = [i \in DOMAIN list |-> list[i][2]]
            /\ loop' = IF \E i \in DOMAIN list : records[list[i][2]] = Nil THEN "dead"
                       ELSE IF list = <<>> THEN "select" ELSE "next"

connectToPeers ==
    /\ loop = "get"
    /\ IF Cardinality(outPeers) >= want THEN loop' = "select" /\ UNCHANGED addrs
       ELSE Get(want - Cardinality(outPeers))
    /\ UNCHANGED <<dbVars, connectedPeers, clock, op, tried, outPeers, conn, crashes>>

\* Mutant: an address is tried as often as it is found.
triedNever(a) == FALSE

triedBefore(a) == a \in tried

\* The next address of the list. connect registers it before it dials.
connect ==
    LET a == Head(addrs)
    IN  /\ loop = "next" /\ op[Main] = Idle
        /\ UNCHANGED <<dbVars, connectedPeers, clock, conn, crashes>>
        /\ IF addrs = <<>> THEN loop' = "get" /\ UNCHANGED <<addrs, tried, outPeers, op>>
           ELSE IF triedBefore(a)
           THEN loop' = "select" /\ addrs' = <<>> /\ UNCHANGED <<tried, outPeers, op>>
           ELSE /\ tried' = tried \cup {a}
                /\ IF a \in Banned \/ a \in outPeers
                   THEN addrs' = Tail(addrs) /\ UNCHANGED <<loop, outPeers>>
                   ELSE outPeers' = outPeers \cup {a} /\ loop' = "dial" /\ UNCHANGED addrs
                /\ IF a \in Banned THEN getPeerInfo(Main, "Delete", a)
                   ELSE IF a \in outPeers THEN UNCHANGED op
                   ELSE getPeerInfo(Main, "OnConnectAttempt", a)

banned ==
    /\ Delete(Main) /\ ended(Main)
    /\ UNCHANGED <<connectedPeers, clock, mainVars, conn, crashes>>

\* The end of an attempt that failed.
giveUp == loop' = "next" /\ addrs' = Tail(addrs) /\ outPeers' = outPeers \ {Head(addrs)}

attempt ==
    /\ OnConnectAttempt(Main) /\ ended(Main)
    /\ IF op[Main].info = Nil THEN giveUp ELSE UNCHANGED <<loop, addrs, outPeers>>
    /\ UNCHANGED <<connectedPeers, clock, tried, conn, crashes>>

\* The other side accepts, has us as an inbound peer already, or does not answer.
dial ==
    LET a == Head(addrs)
    IN  /\ loop = "dial" /\ op[Main] = Idle
        /\ \/ loop' = "accepted" /\ getPeerInfo(Main, "OnConnectSuccess", a)
           \/ loop' = "refused" /\ getPeerInfo(Main, "OnConnectSuccess", a)
           \/ loop' = "failed" /\ getPeerInfo(Main, "OnConnectFailure", a)
        /\ UNCHANGED <<dbVars, connectedPeers, clock, addrs, tried, outPeers, conn, crashes>>

accepted ==
    /\ loop = "accepted" /\ OnConnectSuccess(Main) /\ ended(Main)
    /\ IF op[Main].info = Nil THEN giveUp /\ UNCHANGED conn
       ELSE /\ loop' = "next" /\ addrs' = Tail(addrs) /\ UNCHANGED outPeers
            /\ conn' = [conn EXCEPT ![Head(addrs)] = "up"]
    /\ UNCHANGED <<clock, tried, crashes>>

refused ==
    /\ loop = "refused"
    /\ IF op[Main] # Idle
       THEN OnConnectSuccess(Main) /\ ended(Main) /\ UNCHANGED <<loop, addrs, outPeers>>
       ELSE OnDisconnect(Head(addrs)) /\ giveUp /\ UNCHANGED <<dbVars, op>>
    /\ UNCHANGED <<clock, tried, conn, crashes>>

failed ==
    /\ loop = "failed" /\ OnConnectFailure(Main) /\ ended(Main)
    /\ giveUp
    /\ UNCHANGED <<connectedPeers, clock, tried, conn, crashes>>

main == heard \/ connectToPeers \/ connect \/ banned \/ attempt \/ dial \/ accepted \/ refused \/ failed

-----------------------------------------------------------------------------
(* Handlers of inbound connections, and outbound connections *)

claim(h, a) ==
    /\ op[h] = Idle /\ a \in Claimed \ outPeers
    /\ getPeerInfo(h, "Store", a)
    /\ UNCHANGED <<dbVars, connectedPeers, clock, mainVars, conn, crashes>>

claimed(h) ==
    /\ Store(h) /\ ended(h)
    /\ UNCHANGED <<connectedPeers, clock, mainVars, conn, crashes>>

\* tickerPeerStoreRefresh, in the writer goroutine
refresh(a) ==
    /\ conn[a] \in {"up", "closing", "unlisted"} /\ op[a] = Idle
    /\ getPeerInfo(a, "OnConnectSuccess", a)
    /\ UNCHANGED <<dbVars, connectedPeers, clock, mainVars, conn, crashes>>

refreshed(a) ==
    /\ OnConnectSuccess(a) /\ ended(a)
    /\ UNCHANGED <<clock, mainVars, conn, crashes>>

\* The reader ends. The close handler and the end of the writer come in any order.
hangUp(a) ==
    /\ conn[a] = "up"
    /\ conn' = [conn EXCEPT ![a] = "closing"]
    /\ UNCHANGED <<dbVars, connectedPeers, clock, op, mainVars, crashes>>

closeHandler(a) ==
    /\ conn[a] \in {"closing", "unwatched"}
    /\ conn' = [conn EXCEPT ![a] = IF @ = "closing" THEN "unlisted" ELSE "none"]
    /\ outPeers' = outPeers \ {a}
    /\ UNCHANGED <<dbVars, connectedPeers, clock, op, loop, addrs, tried, crashes>>

writerEnds(a) ==
    /\ conn[a] \in {"closing", "unlisted"} /\ op[a] = Idle
    /\ conn' = [conn EXCEPT ![a] = IF @ = "closing" THEN "unwatched" ELSE "none"]
    /\ OnDisconnect(a)
    /\ UNCHANGED <<dbVars, clock, op, mainVars, crashes>>

tick ==
    /\ clock < MaxClock /\ clock' = clock + 1
    /\ UNCHANGED <<dbVars, connectedPeers, op, mainVars, conn, crashes>>

\* The process stops; the database stays.
crash ==
    /\ crashes < MaxCrashes /\ crashes' = crashes + 1
    /\ connectedPeers' = {} /\ outPeers' = {} /\ tried' = {} /\ addrs' = <<>>
    /\ op' = [x \in Actor |-> Idle]
    /\ loop' = "select"
    /\ conn' = [a \in Addr |-> "none"]
    /\ UNCHANGED <<dbVars, clock>>

Next ==
    \/ main \/ ticker \/ tick \/ crash
    \/ \E a \in Addr : \/ hear(a) \/ refresh(a) \/ refreshed(a)
                       \/ hangUp(a) \/ closeHandler(a) \/ writerEnds(a)
    \/ \E h \in Handler : claimed(h) \/ \E a \in Addr : claim(h, a)

\* The main loop runs.
Spec == Init /\ [][Next]_vars /\ WF_vars(main)

-----------------------------------------------------------------------------
(* Properties *)

TypeOK ==
    /\ records \in [Addr -> [LastAttempt : Untried \cup Clock, LastSuccess : {0} \cup Clock] \cup {Nil}]
    /\ attempts \subseteq (Untried \cup Clock) \X Addr /\ successes \subseteq Clock \X Addr
    /\ connectedPeers \subseteq Addr /\ outPeers \subseteq Addr
    /\ Cardinality(outPeers) <= want


\* A connection that is up, or whose writer still runs, is in the connected set
\* and has a record to refresh, and a refresh does not bring back an address
\* after its last connection has ended.
ConnectedIsRecorded ==
    \A a \in Addr :
        /\ conn[a] \in {"up", "closing", "unlisted"} => a \in connectedPeers /\ records[a] # Nil
        /\ a \in connectedPeers => conn[a] # "none" \/ loop = "refused"

\* No address is dialled while a goroutine of an earlier connection with it runs.
DialledOnce == loop = "dial" => conn[Head(addrs)] = "none"

\* connectToPeers ends, so the main loop hears of addresses and of a shutdown:
\* an address that can be neither connected nor put off is not tried for ever.
ConnectToPeersEnds == []<>(loop \in {"select", "dead"})
=============================================================================
