------------------------------ MODULE MCScreen ------------------------------
EXTENDS Screen

\* A set with snow, on the old path and with a tunnel.
Snowy == {[multi |-> m, snow |-> TRUE, blue |-> FALSE] : m \in BOOLEAN}

\* The old path without snow.
Bare == {[multi |-> FALSE, snow |-> FALSE, blue |-> FALSE]}
==============================================================================
