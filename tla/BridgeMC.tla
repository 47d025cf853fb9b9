------------------------------ MODULE BridgeMC ------------------------------
(* Small instances of the parts of the protocol bridge for TLC.  They share   *)
(* no variable; a behaviour is one of a part, which `part` names, so that one *)
(* run explores the sum of their state spaces.                                *)
EXTENDS BridgeFirmware, BridgeLink, BridgeCodec, BridgeContract, ReceiveQueue

CONSTANTS D10,  \* a pin that only GPIO and chip selects use
          r1, r2, r3
VARIABLE part

\* One- and two-segment requests and answers.
RequestLengths == [r \in Requests |-> IF r = r2 THEN 1 ELSE 2]
AnswerLengths == [r \in Requests |-> IF r = r1 THEN 2 ELSE 1]

\* Queue 0 may overflow and be compacted; queue 1 is there to be disturbed.
Offers == [q \in Queues |-> IF q = 0 THEN 3 ELSE 1]

BridgeInit ==
    /\ part \in {"firmware", "link", "codec", "contract", "queues"}
    /\ Init /\ LinkInit /\ CodecInit /\ ContractInit /\ QueueInit
    /\ part # "codec" => way = "request"
    /\ part # "contract" => operation = "get_status"

BridgeNext ==
    /\ UNCHANGED part
    /\ \/ /\ part = "firmware" /\ Next
          /\ UNCHANGED <<linkVars, codecVars, contractVars, queueVars>>
       \/ /\ part = "link" /\ LinkNext
          /\ UNCHANGED <<vars, codecVars, contractVars, queueVars>>
       \/ /\ part = "codec" /\ CodecNext
          /\ UNCHANGED <<vars, linkVars, contractVars, queueVars>>
       \/ /\ part = "contract" /\ ContractNext
          /\ UNCHANGED <<vars, linkVars, codecVars, queueVars>>
       \/ /\ part = "queues" /\ QueueNext
          /\ UNCHANGED <<vars, linkVars, codecVars, contractVars>>

BridgeSpec ==
    BridgeInit /\ [][BridgeNext]_<<part, vars, linkVars, codecVars, contractVars, queueVars>>
=============================================================================
