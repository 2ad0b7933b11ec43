------------------------------ MODULE MCObservation ------------------------------
EXTENDS ChainObservationProps, TLC

CONSTANTS t1, t2

(* Either transfer reaches half of the expected amount, rounded up, and    *)
(* only both together all of it.                                           *)
MCAmount == [t \in Transfers |-> 2]

(* The defaults; a low detection threshold and a deeper finality; and raw  *)
(* values in the wrong order.                                              *)
MCConfigs == {[detected |-> 0, confirmed |-> 0, business |-> 0, finality |-> 0],
              [detected |-> 5000, confirmed |-> 9000, business |-> 1, finality |-> 2],
              [detected |-> 20000, confirmed |-> 12000, business |-> 2, finality |-> 1]}

TransferSymmetry == Permutations(Transfers)
==================================================================================
