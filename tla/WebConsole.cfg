\* Two sends, the second of which may be begun before the first is over.
CONSTANT Sends = {1, 2}
SPECIFICATION Spec
INVARIANTS EndIsReconciled
\* Every send may be over.
CHECK_DEADLOCK FALSE
