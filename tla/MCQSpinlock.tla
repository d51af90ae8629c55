-------------------------------- MODULE MCQSpinlock --------------------------------
\* Instances of QSpinlock: one thread on each CPU, or all of them on one.
EXTENDS QSpinlock
MCOwnCpu == [t \in Threads |-> t]
MCOneCpu == [t \in Threads |-> CHOOSE c \in CPUs : TRUE]
====================================================================================
