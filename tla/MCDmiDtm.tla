------------------------------ MODULE MCDmiDtm ------------------------------
EXTENDS DmiDtm

\* dmi_t has 7 + 32 + 2 bits, dtmcs_t has 32.
Lengths == [dmi |-> 41, dtmcs |-> 32]

\* A host in a hurry, with a fast cable: no wait after any request.
Hasty == [idleAfter |-> [op \in Ops |-> 0], maxTckPerClk |-> 7, patient |-> FALSE]

\* PulpOCD: after go_idle, readapb idles 3 * 7 edges and writeapb 2 * 5.
Pulp == [idleAfter |-> [read |-> 21, write |-> 10, nop |-> 0], maxTckPerClk |-> 3,
         patient |-> TRUE]

BothHosts == {Hasty, Pulp}
=============================================================================
