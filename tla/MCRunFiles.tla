----------------------------- MODULE MCRunFiles -----------------------------
EXTENDS RunFiles

\* Two primary rules that must match and a supporting one, all for the same file.
MCPattern  == [r \in Rules |-> Files]
MCPriority == [r \in Rules |-> IF r = 3 THEN 1 ELSE 2]
=============================================================================
