------------------------------- MODULE Wallet -------------------------------
(***************************************************************************)
(* A wallet's connection to a node (wallet.go): the command loop, which    *)
(* asks one thing at a time and waits for the result; the writer and the   *)
(* reader of each connection; the channels between them, which every new   *)
(* connection replaces; and the commands of the wallet program as the      *)
(* lists of requests they make (wallet/main.go).                           *)
(*                                                                         *)
(* A message is its type and the number of the request it belongs to, which*)
(* the real messages do not carry.                                         *)
(***************************************************************************)
EXTENDS Naturals, Sequences, SequencesExt

CONSTANTS
    Commands,          \* lists of requests
    resultChanSize,    \* 1
    MaxConnections, MaxCommands, MaxNotices

ASSUME WalletAssumption == {resultChanSize, MaxConnections, MaxCommands, MaxNotices} \subseteq Nat

VARIABLES
    pc, todo,          \* the command loop: where it is, the requests still to make
    asked, commands,   \* numbers of requests and of commands so far
    conn,              \* w.conn: the number of a connection, 0 for nil
    last,              \* the last connection made: w.outChan and w.resultChan are its
    outClosed,         \* connection -> outChan is closed
    resultChan,        \* results waiting in w.resultChan
    open,              \* connection -> its socket is open
    toNode, toWallet,  \* connection -> messages on the way
    reader, writer,    \* connection -> the state of its goroutine
    notices,
    newTxs,            \* transactions heard of and not shown yet
    telling, told      \* the message about them waits for cmdLock; it was printed

loopVars == <<pc, todo, asked, commands>>
chanVars == <<conn, last, outClosed, resultChan>>
netVars == <<open, toNode, toWallet, notices>>
newVars == <<newTxs, telling, told>>
vars == <<loopVars, chanVars, netVars, newVars, reader, writer>>

Conn == 1..MaxConnections
Idle(c) == [name |-> "idle", from |-> c, to |-> 0, message |-> <<>>]
NoWriter == [name |-> "none", from |-> 0, to |-> 0, message |-> <<>>]
Err == [type |-> "error", of |-> 0]

Init ==
    /\ pc = "prompt" /\ todo = <<>> /\ asked = 0 /\ commands = 0
    /\ conn = 0 /\ last = 0
    /\ outClosed = [c \in Conn |-> FALSE] /\ resultChan = <<>>
    /\ open = [c \in Conn |-> FALSE]
    /\ toNode = [c \in Conn |-> <<>>] /\ toWallet = [c \in Conn |-> <<>>]
    /\ reader = [c \in Conn |-> "none"] /\ writer = [c \in Conn |-> NoWriter]
    /\ notices = 0 /\ newTxs = 0 /\ telling = FALSE /\ told = FALSE

-----------------------------------------------------------------------------
(* Requests and commands *)

SetFilter == <<"filter_load">>
sendTransaction == <<"get_transaction_relay_policy", "get_tip_header", "push_transaction">>
txstatus == <<"get_transaction", "get_tip_header">>
rewards == <<"get_tip_header", "get_public_key_transactions">>
balance == <<"get_balance", "get_balance">>
showTransaction == <<"show", "get_tip_header">>

\* What the node answers.
answerTo ==
    [filter_load |-> "filter_result", get_balance |-> "balance",
     get_tip_header |-> "tip_header", push_transaction |-> "push_transaction_result",
     get_transaction |-> "transaction", get_public_key_transactions |-> "public_key_transactions",
     get_transaction_relay_policy |-> "transaction_relay_policy"]

\* Mutant: so is a transaction that is announced.
isResultNotice(type) ==
    type \in {"balance", "tip_header", "transaction_relay_policy", "push_transaction_result",
              "transaction", "public_key_transactions", "filter_result", "push_transaction"}

\* The messages the reader hands to the command loop.
isResult(type) ==
    type \in {"balance", "tip_header", "transaction_relay_policy", "push_transaction_result",
              "transaction", "public_key_transactions", "filter_result"}

\* A node that refuses a filter says so in the message, which becomes an error.
results(message) == {message} \cup (IF message.type = "filter_result" THEN {Err} ELSE {})

-----------------------------------------------------------------------------
(* The command loop *)

\* A user's next command comes after the goroutines of a lost connection have
\* ended: a user types, a goroutine runs two deferred calls.
settled == \A c \in Conn : reader[c] # "reading" => reader[c] = "none" /\ writer[c] = NoWriter

\* connectWallet: a command that needs the node makes a connection if there is
\* none, and sets the filter first.
command(list) ==
    /\ pc = "prompt" /\ settled /\ commands < MaxCommands
    /\ commands' = commands + 1
    /\ IF conn # 0 THEN pc' = "send" /\ todo' = list
       ELSE pc' = "dial" /\ todo' = SetFilter \o list
    /\ UNCHANGED <<asked, chanVars, netVars, reader, writer, newVars>>

clearnew ==
    /\ pc = "prompt" /\ newTxs > 0
    /\ newTxs' = 0
    /\ UNCHANGED <<loopVars, chanVars, netVars, telling, told, reader, writer>>

\* "show" takes one of the new transactions, if there is one.
show ==
    /\ pc = "send" /\ Head(todo) = "show"
    /\ IF newTxs = 0 THEN pc' = "prompt" /\ todo' = <<>> /\ UNCHANGED newTxs
       ELSE newTxs' = newTxs - 1 /\ todo' = Tail(todo) /\ UNCHANGED pc
    /\ UNCHANGED <<asked, commands, chanVars, netVars, telling, told, reader, writer>>

\* A new key is added to the node's filter only while there is a connection.
newkey ==
    /\ pc = "prompt" /\ settled /\ commands < MaxCommands /\ conn # 0
    /\ commands' = commands + 1
    /\ pc' = "send" /\ todo' = SetFilter
    /\ UNCHANGED <<asked, chanVars, netVars, reader, writer, newVars>>

Connect ==
    /\ pc = "dial"
    /\ \/ /\ last < MaxConnections
          /\ conn' = last + 1 /\ last' = last + 1 /\ resultChan' = <<>>
          /\ open' = [open EXCEPT ![last + 1] = TRUE]
          /\ reader' = [reader EXCEPT ![last + 1] = "reading"]
          /\ writer' = [writer EXCEPT ![last + 1] = Idle(last + 1)]
          /\ pc' = "send" /\ UNCHANGED todo
       \/ /\ pc' = "prompt" /\ todo' = <<>>
          /\ UNCHANGED <<conn, last, resultChan, open, reader, writer>>
    /\ UNCHANGED <<asked, commands, outClosed, toNode, toWallet, notices, newVars>>

\* "w.outChan <- Message{...}": a writer takes the message, or the channel is
\* closed.
send ==
    /\ pc = "send" /\ Head(todo) # "show"
    /\ IF outClosed[last] THEN pc' = "panic" /\ UNCHANGED <<asked, writer>>
       ELSE \E w \in Conn :
            /\ writer[w] = Idle(last)
            /\ asked' = asked + 1
            /\ writer' = [writer EXCEPT ![w] =
                   [@ EXCEPT !.name = "taken", !.message = [type |-> Head(todo), of |-> asked + 1]]]
            /\ pc' = "wait"
    /\ UNCHANGED <<todo, commands, chanVars, netVars, reader, newVars>>

\* "result := <-w.resultChan": an error ends the command, and so may what the
\* result says or what the user answers to a question.
receive ==
    /\ pc = "wait" /\ resultChan # <<>>
    /\ resultChan' = Tail(resultChan)
    /\ todo' \in IF Head(resultChan) = Err THEN {<<>>} ELSE {<<>>, Tail(todo)}
    /\ pc' = IF todo' = <<>> THEN "prompt" ELSE "send"
    /\ UNCHANGED <<asked, commands, conn, last, outClosed, netVars, reader, writer, newVars>>

\* Shutdown closes the socket and waits for the goroutines.
Shutdown ==
    /\ \/ /\ pc = "prompt" /\ pc' = "shutdown"
          /\ open' = IF conn = 0 THEN open ELSE [open EXCEPT ![conn] = FALSE]
       \/ /\ pc = "shutdown" /\ pc' = "quit"
          /\ \A c \in Conn : reader[c] = "none" /\ writer[c] = NoWriter
          /\ UNCHANGED open
    /\ UNCHANGED <<todo, asked, commands, chanVars, toNode, toWallet, notices, reader, writer, newVars>>

-----------------------------------------------------------------------------
(* The goroutines of a connection *)

room == Len(resultChan) < resultChanSize

\* The writer looks at w.conn when it has a message.
take(c) ==
    /\ writer[c].name = "taken"
    /\ IF conn = 0 THEN pc' = "panic" /\ UNCHANGED writer
       ELSE writer' = [writer EXCEPT ![c] = [@ EXCEPT !.name = "writing", !.to = conn]] /\ UNCHANGED pc
    /\ UNCHANGED <<todo, asked, commands, chanVars, netVars, reader, newVars>>

\* Writing to a closed socket may still succeed. Then the writer goes on with
\* w.outChan as it is now.
write(c) ==
    LET to == writer[c].to
    IN  /\ writer[c].name = "writing"
        /\ \/ /\ toNode' = [toNode EXCEPT ![to] = IF open[to] THEN Append(@, writer[c].message) ELSE @]
              /\ UNCHANGED resultChan
           \/ /\ ~open[to] /\ room
              /\ resultChan' = Append(resultChan, Err)
              /\ UNCHANGED toNode
        /\ writer' = [writer EXCEPT ![c] = Idle(last)]
        /\ UNCHANGED <<loopVars, conn, last, outClosed, open, toWallet, notices, reader, newVars>>

writerEnds(c) ==
    /\ writer[c].name = "idle" /\ outClosed[writer[c].from]
    /\ writer' = [writer EXCEPT ![c] = NoWriter]
    /\ UNCHANGED <<loopVars, chanVars, netVars, reader, newVars>>

\* Mutants: the message is printed by the reader, which has to wait for cmdLock;
\* the list is looked at after the transaction is added.
callbackWaits ==
    /\ newTxs = 0 => pc = "prompt"
    /\ newTxs' = newTxs + 1
    /\ told' = (newTxs = 0 \/ told) /\ UNCHANGED telling
callbackAfter ==
    /\ newTxs' = newTxs + 1
    /\ telling' = (newTxs' = 0 \/ telling) /\ told' = (newTxs > 0 /\ told)

\* The callback of main: "don't interrupt a user during a command".
callback ==
    /\ newTxs' = newTxs + 1
    /\ telling' = (newTxs = 0 \/ telling) /\ told' = (newTxs > 0 /\ told)

tell ==
    /\ telling /\ pc = "prompt"
    /\ telling' = FALSE /\ told' = TRUE
    /\ UNCHANGED <<loopVars, chanVars, netVars, newTxs, reader, writer>>

\* A result goes to the command loop; a transaction that concerns the wallet
\* goes to the callback; what else a node sends is ignored.
read(c) ==
    /\ reader[c] = "reading" /\ toWallet[c] # <<>>
    /\ LET message == Head(toWallet[c])
       IN  IF isResult(message.type)
           THEN /\ room /\ \E r \in results(message) : resultChan' = Append(resultChan, r)
                /\ UNCHANGED newVars
           ELSE /\ UNCHANGED resultChan
                /\ IF message.type = "push_transaction" THEN callback ELSE UNCHANGED newVars
    /\ toWallet' = [toWallet EXCEPT ![c] = Tail(@)]
    /\ UNCHANGED <<loopVars, conn, last, outClosed, open, toNode, notices, reader, writer>>

readError(c) ==
    /\ reader[c] = "reading" /\ ~open[c] /\ room
    /\ resultChan' = Append(resultChan, Err)
    /\ reader' = [reader EXCEPT ![c] = "ending"]
    /\ UNCHANGED <<loopVars, conn, last, outClosed, netVars, writer, newVars>>

\* The deferred calls of run: close(w.outChan), then w.conn = nil.
readerEnds(c) ==
    /\ \/ /\ reader[c] = "ending"
          /\ reader' = [reader EXCEPT ![c] = "closed"]
          /\ outClosed' = [outClosed EXCEPT ![c] = TRUE]
          /\ UNCHANGED conn
       \/ /\ reader[c] = "closed"
          /\ reader' = [reader EXCEPT ![c] = "none"]
          /\ conn' = 0
          /\ UNCHANGED outClosed
    /\ UNCHANGED <<loopVars, last, resultChan, netVars, writer, newVars>>

-----------------------------------------------------------------------------
(* The node and the network *)

answer(c) ==
    /\ open[c] /\ toNode[c] # <<>>
    /\ LET request == Head(toNode[c])
       IN  toWallet' = [toWallet EXCEPT ![c] =
               Append(@, [type |-> answerTo[request.type], of |-> request.of])]
    /\ toNode' = [toNode EXCEPT ![c] = Tail(@)]
    /\ UNCHANGED <<loopVars, chanVars, open, notices, reader, writer, newVars>>

\* The node sends a transaction that passes the filter.
notify(c) ==
    /\ open[c] /\ notices < MaxNotices
    /\ notices' = notices + 1
    /\ \E type \in {"push_transaction", "false_positive"} :
          toWallet' = [toWallet EXCEPT ![c] = Append(@, [type |-> type, of |-> 0])]
    /\ UNCHANGED <<loopVars, chanVars, open, toNode, reader, writer, newVars>>

disconnect(c) ==
    /\ open[c] /\ open' = [open EXCEPT ![c] = FALSE]
    /\ UNCHANGED <<loopVars, chanVars, toNode, toWallet, notices, reader, writer, newVars>>

goroutine(c) == take(c) \/ write(c) \/ writerEnds(c) \/ read(c) \/ readError(c) \/ readerEnds(c)

\* A panic ends the program.
Next ==
    /\ pc # "panic"
    /\ \/ newkey \/ clearnew \/ Connect \/ show \/ send \/ receive \/ Shutdown \/ tell
       \/ \E list \in Commands : command(list)
       \/ \E c \in Conn : goroutine(c) \/ answer(c) \/ notify(c) \/ disconnect(c)

\* Goroutines run, the user answers the questions of a command, and a node that
\* is connected answers.
Spec ==
    /\ Init /\ [][Next]_vars
    /\ WF_vars(pc # "panic" /\ (Connect \/ show \/ send \/ receive \/ (pc = "shutdown" /\ Shutdown)))
    /\ WF_vars(tell)
    /\ \A c \in Conn :
          /\ WF_vars(pc # "panic" /\ take(c)) /\ WF_vars(pc # "panic" /\ write(c))
          /\ WF_vars(pc # "panic" /\ writerEnds(c)) /\ WF_vars(pc # "panic" /\ answer(c))
          /\ WF_vars(pc # "panic" /\ (read(c) \/ readError(c) \/ readerEnds(c)))

-----------------------------------------------------------------------------
(* Properties *)

\* "incoming results for synchronous requests": a result arrives only while the
\* request it answers is waited for, although results carry no number.
AnswersMatch ==
    \A i \in DOMAIN resultChan :
        resultChan[i] # Err => pc = "wait" /\ resultChan[i].of = asked

\* Every request gets a result or an error, so every command ends, and so does
\* "Shutdown is called to shutdown the wallet synchronously."
CommandEnds == pc # "prompt" ~> pc \in {"prompt", "quit", "panic"}

\* A user with new transactions is told of them, unless they are gone first.
NewIsAnnounced == newTxs > 0 ~> told \/ newTxs = 0 \/ pc \in {"shutdown", "quit", "panic"}
=============================================================================
