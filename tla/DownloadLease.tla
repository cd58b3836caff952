---------------------------- MODULE DownloadLease ---------------------------
(***************************************************************************)
(* What the global in-flight queue promises (block_queue.go): the right to *)
(* download a block is a lease. A lease that has not run out is ended only *)
(* by the peer that holds it. One that has run out may be taken over while *)
(* the late peer still waits for its answer; that answer then ends the     *)
(* late peer's wait and leaves the lease of the new holder alone.          *)
(***************************************************************************)
CONSTANTS Peer, Block, Nil

VARIABLES
    holder,     \* the peer that may download a block, and whether it still has time
    waiting     \* the peers a block has been requested from

leaseVars == <<holder, waiting>>

Free == [who |-> Nil, fresh |-> FALSE]

LeaseInit ==
    /\ holder = [b \in Block |-> Free]
    /\ waiting = [b \in Block |-> {}]

Grant(p, b) ==
    /\ ~holder[b].fresh
    /\ p \notin waiting[b]
    /\ holder' = [holder EXCEPT ![b] = [who |-> p, fresh |-> TRUE]]
    /\ waiting' = [waiting EXCEPT ![b] = @ \cup {p}]

RunOut(b) ==
    /\ holder[b].fresh
    /\ holder' = [holder EXCEPT ![b].fresh = FALSE]
    /\ UNCHANGED waiting

End(p, b) ==
    /\ p \in waiting[b]
    /\ waiting' = [waiting EXCEPT ![b] = @ \ {p}]
    /\ holder' = [holder EXCEPT ![b] = IF @.who = p THEN Free ELSE @]

LeaseNext ==
    \E b \in Block : RunOut(b) \/ \E p \in Peer : Grant(p, b) \/ End(p, b)

LeaseSpec == LeaseInit /\ [][LeaseNext]_leaseVars
=============================================================================
