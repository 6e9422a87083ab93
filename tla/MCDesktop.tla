------------------------------ MODULE MCDesktop ------------------------------
EXTENDS Desktop, TLC
CONSTANTS t1, t2, f1
MCLimits == {[logins |-> 2, floats |-> {f1}, turns |-> {}],
             [logins |-> 1, floats |-> {f1}, turns |-> {t1}],
             [logins |-> 1, floats |-> {}, turns |-> {t1, t2}]}
=============================================================================
