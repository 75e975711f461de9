---------------------------- MODULE MCDelegation ----------------------------
(* Values of Delegation's constants for model checking.                    *)
EXTENDS Delegation

Local == [external |-> FALSE, cancellation |-> FALSE, resume |-> FALSE]
Remote == [external |-> TRUE, cancellation |-> TRUE, resume |-> TRUE]

TwoKinds == {Local, Remote}
ExternalOnly == {Remote}

=============================================================================
