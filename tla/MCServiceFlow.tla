--------------------------- MODULE MCServiceFlow ---------------------------
\* Static flows for the model checker: "setflow UL" and "setflow DL" of the test scripts,
\* with and without ARQ.
EXTENDS ServiceFlow, TLC

Up      == <<[dir |-> "UL", arq |-> FALSE]>>
UpArq   == <<[dir |-> "UL", arq |-> TRUE]>>
DownArq == <<[dir |-> "DL", arq |-> TRUE]>>
BothArq == UpArq \o DownArq

\* The stations are alike; sound for the invariants
Alike == Permutations(Station)
============================================================================
