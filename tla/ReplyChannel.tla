---------------------------- MODULE ReplyChannel ----------------------------
(***************************************************************************)
(* What ClientSession::send_packet() promises its callers: packets it      *)
(* accepts, numbered in that order, reach the peer in that order, without  *)
(* gaps or repetitions, until the connection is shut; after that nothing   *)
(* is accepted or delivered.                                               *)
(***************************************************************************)
EXTENDS Naturals, Sequences

VARIABLES
    accepted,   \* number of packets accepted
    delivered,  \* the packets the peer has received
    open        \* the connection is up

channelVars == <<accepted, delivered, open>>

Init == accepted = 0 /\ delivered = <<>> /\ open = TRUE

Accept ==
    /\ open
    /\ accepted' = accepted + 1
    /\ UNCHANGED <<delivered, open>>

Deliver ==
    /\ open /\ Len(delivered) < accepted
    /\ delivered' = Append(delivered, Len(delivered) + 1)
    /\ UNCHANGED <<accepted, open>>

Shut ==
    /\ open
    /\ open' = FALSE
    /\ UNCHANGED <<accepted, delivered>>

Next == Accept \/ Deliver \/ Shut

Spec == Init /\ [][Next]_channelVars
=============================================================================
