------------------------ MODULE MCConcurrencyLimiter ------------------------
EXTENDS ConcurrencyLimiter

CONSTANTS k1, k2, k3, k4, k5

\* Three workflows of one type and two of another, in one namespace.
MCOf == [k \in {k1, k2, k3, k4, k5} |->
           [type |-> IF k \in {k4, k5} THEN "email" ELSE "order",
            namespace |-> "default"]]
MCLimit == [type |-> 1, namespace |-> 3]
=============================================================================
