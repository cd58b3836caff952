----------------------------- MODULE PeerManager ----------------------------
(***************************************************************************)
(* The connections of a node (peer_manager.go): the main loop that makes   *)
(* outbound ones, the handlers that accept inbound ones, the goroutines of *)
(* each connection (peer.go), and the shutdown of all of them. They share  *)
(* the sets of connections, the count of inbound ones by host, and the     *)
(* channel through which connections hand addresses to the main loop.      *)
(*                                                                         *)
(* Which addresses are tried is in PeerStorage. A message with addresses   *)
(* carries one here.                                                       *)
(***************************************************************************)
EXTENDS Naturals, FiniteSets

CONSTANTS
    Out, In,             \* addresses of outbound and of inbound connections
    Host,                \* the host of an inbound address
    Nil,
    MAX_OUTBOUND_PEER_CONNECTIONS, inboundLimit,
    MAX_INBOUND_PEER_CONNECTIONS_FROM_SAME_HOST,
    addrChanSize,        \* 10000
    MaxMessages          \* bound on the messages with addresses

ASSUME ManagerAssumption ==
    /\ Out \cap In = {} /\ Nil \notin Out \cup In
    /\ {MAX_OUTBOUND_PEER_CONNECTIONS, inboundLimit, addrChanSize, MaxMessages,
        MAX_INBOUND_PEER_CONNECTIONS_FROM_SAME_HOST} \subseteq Nat

Peer == Out \cup In
Hosts == {Host[c] : c \in In}

VARIABLES
    loop, target,        \* the main loop, and the address it dials or drops
    listening,           \* the server takes requests
    outPeers, inPeers,
    inPeerCountByHost,
    handler,             \* inbound address -> where the handler of its request is
    running,             \* the goroutines of a connection: "none", "reading", "sending"
    open,                \* its socket
    addrChan,            \* the number of addresses waiting in it
    messages,            \* messages with addresses so far
    shutdown, toStop, stopping

mainVars == <<loop, target, listening>>
setVars == <<outPeers, inPeers, inPeerCountByHost>>
runVars == <<running, open, addrChan, messages>>
stopVars == <<shutdown, toStop, stopping>>
vars == <<mainVars, setVars, handler, runVars, stopVars>>

Init ==
    /\ loop = "select" /\ target = Nil /\ listening = FALSE
    /\ outPeers = {} /\ inPeers = {}
    /\ inPeerCountByHost = [h \in Hosts |-> 0]
    /\ handler = [c \in In |-> "none"]
    /\ running = [p \in Peer |-> "none"]
    /\ open = [p \in Peer |-> FALSE]
    /\ addrChan = 0 /\ messages = 0
    /\ shutdown = "no" /\ toStop = {} /\ stopping = Nil

-----------------------------------------------------------------------------
(* The sets *)

addToOutboundSet(a) == outPeers' = outPeers \cup {a} /\ UNCHANGED <<inPeers, inPeerCountByHost>>

removeFromOutboundSet(a) == outPeers' = outPeers \ {a} /\ UNCHANGED <<inPeers, inPeerCountByHost>>

addToInboundSet(c) ==
    /\ inPeers' = inPeers \cup {c}
    /\ inPeerCountByHost' = [inPeerCountByHost EXCEPT ![Host[c]] = @ + 1]
    /\ UNCHANGED outPeers

\* Mutant: the count of the host is forgotten with its first connection.
removeFromInboundSetAll(c) ==
    /\ inPeers' = inPeers \ {c}
    /\ inPeerCountByHost' = [inPeerCountByHost EXCEPT ![Host[c]] = 0]
    /\ UNCHANGED outPeers

\* A host without a count has none.
removeFromInboundSet(c) ==
    /\ inPeers' = inPeers \ {c}
    /\ inPeerCountByHost' = [inPeerCountByHost EXCEPT ![Host[c]] = IF @ = 0 THEN 0 ELSE @ - 1]
    /\ UNCHANGED outPeers

\* A set is full when it has exactly its limit.
outboundFull == Cardinality(outPeers) = MAX_OUTBOUND_PEER_CONNECTIONS

inboundFull == Cardinality(inPeers) = inboundLimit


closeSocket(p) == open' = [open EXCEPT ![p] = FALSE]

-----------------------------------------------------------------------------
(* The main loop *)

\* An address is known already, or new, and then connections are tried.
hearAddress ==
    /\ loop = "select" /\ addrChan > 0
    /\ addrChan' = addrChan - 1
    /\ loop' \in {"select", "connect"}
    /\ UNCHANGED <<target, listening, setVars, handler, running, open, messages, stopVars>>

\* Not before the node has synced.
listenForPeers == listening' \in {listening, TRUE}

\* Every five minutes; a seeder may drop a connection and wait for its end.
tick ==
    /\ loop = "select"
    /\ listenForPeers
    /\ \/ loop' = "connect" /\ UNCHANGED <<target, open>>
       \/ \E a \in outPeers : /\ loop' = "drop" /\ target' = a
                              /\ closeSocket(a)
    /\ UNCHANGED <<setVars, handler, running, addrChan, messages, stopVars>>

dropRandomPeer ==
    /\ loop = "drop" /\ running[target] = "none"
    /\ loop' = "connect" /\ target' = Nil
    /\ UNCHANGED <<listening, setVars, handler, runVars, stopVars>>

\* connectToPeers and the first half of connect: an address is registered, or
\* there is none to try, or no need.
connectToPeers ==
    /\ loop = "connect"
    /\ \/ loop' = "select" /\ UNCHANGED <<target, setVars>>
       \/ \E a \in Out \ outPeers :
              /\ ~outboundFull /\ addToOutboundSet(a)
              /\ loop' = "dial" /\ target' = a
    /\ UNCHANGED <<listening, handler, runVars, stopVars>>

\* The second half. A shutdown cancels the attempt and ends connectToPeers.
connect ==
    /\ loop = "dial"
    /\ \/ /\ running' = [running EXCEPT ![target] = "reading"]
          /\ open' = [open EXCEPT ![target] = TRUE]
          /\ loop' = "connect"
          /\ UNCHANGED setVars
       \/ /\ removeFromOutboundSet(target)
          /\ loop' = IF shutdown = "no" THEN "connect" ELSE "select"
          /\ UNCHANGED <<running, open>>
    /\ target' = Nil
    /\ UNCHANGED <<listening, handler, addrChan, messages, stopVars>>

\* shutdownChan is closed: the server stops listening, then waits for requests
\* whose connection has not been taken over by a websocket.
stop ==
    /\ \/ loop = "select" /\ shutdown # "no" /\ loop' = "stopping"
       \/ loop = "stopping" /\ (\A c \in In : handler[c] # "checked") /\ loop' = "ended"
    /\ listening' = FALSE
    /\ UNCHANGED <<target, setVars, handler, runVars, stopVars>>

main == hearAddress \/ tick \/ dropRandomPeer \/ connectToPeers \/ connect \/ stop

-----------------------------------------------------------------------------
(* The handlers of inbound connections (acceptConnections) *)

checkHostConnectionLimit(c) ==
    inPeerCountByHost[Host[c]] < MAX_INBOUND_PEER_CONNECTIONS_FROM_SAME_HOST

\* The other side can use its address again once its own socket is closed.
request(c) ==
    /\ listening /\ handler[c] = "none" /\ ~open[c]
    /\ checkHostConnectionLimit(c)
    /\ handler' = [handler EXCEPT ![c] = "checked"]
    /\ UNCHANGED <<mainVars, setVars, runVars, stopVars>>

\* Refused for its nonce or address, or taken over by a websocket.
upgrade(c) ==
    /\ handler[c] = "checked"
    /\ \E result \in {"none", "upgraded"} : handler' = [handler EXCEPT ![c] = result]
    /\ UNCHANGED <<mainVars, setVars, runVars, stopVars>>

add(c) ==
    /\ handler[c] = "upgraded"
    /\ IF inboundFull \/ c \in inPeers
       THEN handler' = [handler EXCEPT ![c] = "none"] /\ UNCHANGED <<setVars, open>>
       ELSE /\ addToInboundSet(c)
            /\ handler' = [handler EXCEPT ![c] = "added"]
            /\ open' = [open EXCEPT ![c] = TRUE]
    /\ UNCHANGED <<mainVars, running, addrChan, messages, stopVars>>

start(c) ==
    /\ handler[c] = "added"
    /\ handler' = [handler EXCEPT ![c] = "none"]
    /\ running' = [running EXCEPT ![c] = "reading"]
    /\ UNCHANGED <<mainVars, setVars, open, addrChan, messages, stopVars>>

-----------------------------------------------------------------------------
(* The goroutines of a connection *)

receiveAddress(p) ==
    /\ running[p] = "reading" /\ open[p] /\ messages < MaxMessages
    /\ running' = [running EXCEPT ![p] = "sending"]
    /\ messages' = messages + 1
    /\ UNCHANGED <<mainVars, setVars, handler, open, addrChan, stopVars>>

\* onPeerAddresses: "notify the peer manager"
onPeerAddresses(p) ==
    /\ running[p] = "sending" /\ addrChan < addrChanSize
    /\ addrChan' = addrChan + 1
    /\ running' = [running EXCEPT ![p] = "reading"]
    /\ UNCHANGED <<mainVars, setVars, handler, open, messages, stopVars>>

hangUp(p) ==
    /\ open[p] /\ open' = [open EXCEPT ![p] = FALSE]
    /\ UNCHANGED <<mainVars, setVars, handler, running, addrChan, messages, stopVars>>

\* Mutant: the close handler of an outbound connection does nothing.
closeHandlerInbound(p) == IF p \in Out THEN UNCHANGED setVars ELSE removeFromInboundSet(p)

closeHandler(p) == IF p \in Out THEN removeFromOutboundSet(p) ELSE removeFromInboundSet(p)

\* The last goroutine ends; whoever waits for it in Peer.Shutdown goes on.
readError(p) ==
    /\ running[p] = "reading" /\ ~open[p]
    /\ running' = [running EXCEPT ![p] = "none"]
    /\ closeHandler(p)
    /\ toStop' = toStop \ {p}
    /\ stopping' = IF stopping = p THEN Nil ELSE stopping
    /\ UNCHANGED <<mainVars, handler, open, addrChan, messages, shutdown>>

-----------------------------------------------------------------------------
(* Shutdown, in a goroutine of the client *)

Shutdown ==
    /\ shutdown = "no" /\ shutdown' = "waiting"
    /\ UNCHANGED <<mainVars, setVars, handler, runVars, toStop, stopping>>

\* The main loop has ended: the connections there are now.
collect ==
    /\ shutdown = "waiting" /\ loop = "ended"
    /\ shutdown' = "peers"
    /\ toStop' = outPeers \cup inPeers
    /\ UNCHANGED <<mainVars, setVars, handler, runVars, stopping>>

\* Peer.Shutdown: close the socket, wait for the goroutines if they were started.
shutdownPeer ==
    /\ shutdown = "peers" /\ stopping = Nil
    /\ IF toStop = {} THEN shutdown' = "returned" /\ UNCHANGED <<toStop, stopping, open>>
       ELSE \E p \in toStop :
            /\ closeSocket(p)
            /\ IF running[p] = "none" THEN toStop' = toStop \ {p} /\ UNCHANGED stopping
               ELSE stopping' = p /\ UNCHANGED toStop
            /\ UNCHANGED shutdown
    /\ UNCHANGED <<mainVars, setVars, handler, running, addrChan, messages>>

-----------------------------------------------------------------------------
Next ==
    \/ main \/ Shutdown \/ collect \/ shutdownPeer
    \/ \E c \in In : request(c) \/ upgrade(c) \/ add(c) \/ start(c)
    \/ \E p \in Peer : receiveAddress(p) \/ onPeerAddresses(p) \/ hangUp(p) \/ readError(p)

\* Goroutines run. The main loop's select takes the closed shutdownChan in the
\* end, although other cases are ready as often; connectToPeers ends (PeerStorage).
Spec ==
    /\ Init /\ [][Next]_vars
    /\ WF_vars(main) /\ SF_vars(stop) /\ SF_vars(connectToPeers /\ loop' = "select")
    /\ WF_vars(collect) /\ WF_vars(shutdownPeer)
    /\ \A c \in In : WF_vars(upgrade(c) \/ add(c) \/ start(c))
    /\ \A p \in Peer : WF_vars(onPeerAddresses(p)) /\ WF_vars(readError(p))

-----------------------------------------------------------------------------
(* Properties *)

TypeOK ==
    /\ outPeers \subseteq Out /\ inPeers \subseteq In
    /\ Cardinality(outPeers) <= MAX_OUTBOUND_PEER_CONNECTIONS
    /\ Cardinality(inPeers) <= inboundLimit
    /\ addrChan \in 0..addrChanSize
    /\ running \in [Peer -> {"none", "reading", "sending"}] /\ open \in [Peer -> BOOLEAN]

\* The count by host is the number of connections of that host, through
\* requests that reuse an address, refusals and connections that end: no host
\* is locked out by a connection that is gone, and none escapes its limit later.
CountByHostExact ==
    \A h \in Hosts : inPeerCountByHost[h] = Cardinality({c \in inPeers : Host[c] = h})

\* Whatever takes up a place in a set has a goroutine that will free it.
SlotIsFreed ==
    /\ \A a \in outPeers : running[a] # "none" \/ (loop = "dial" /\ target = a)
    /\ \A c \in inPeers : running[c] # "none" \/ handler[c] = "added"

=============================================================================
