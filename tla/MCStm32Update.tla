--------------------------- MODULE MCStm32Update ---------------------------
EXTENDS Stm32Update

(* Anything lost, and no poll; or the poll, and every loss reported. *)
AnyLoss == {[faults |-> FaultKinds, chIsProtectVerify |-> FALSE],
            [faults |-> FaultKinds \ {"silent"}, chIsProtectVerify |-> TRUE]}

OnlyResultLost == {[faults |-> {"result"}, chIsProtectVerify |-> FALSE]}

=============================================================================
