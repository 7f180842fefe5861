------------------------------ MODULE MCXhCore ------------------------------
\* Two libraries, two registrations and one ignore entry.
EXTENDS XhCore
CONSTANTS liba, libb, s1, t1, t2
MCHooks == {[libs |-> {liba, libb}, sym |-> s1, id |-> 1],
            [libs |-> {liba}, sym |-> s1, id |-> 2]}
MCIgnores == {[libs |-> {libb}, sym |-> s1]}
MCInitial == [x \in Bases |-> IF x = 1 THEN liba ELSE None]
MCCalls == (t1 :> 2) @@ (t2 :> 1)
=============================================================================
