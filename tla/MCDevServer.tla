----------------------------- MODULE MCDevServer -----------------------------
(* A dashboard in two versions, one with two texts, and another dashboard.   *)
EXTENDS DevServer

CONSTANTS n, m, v, w, x, y, f1, f2

Text(name, version, body) == [ref |-> <<name, version>>, body |-> body]
Written == {Text(n, v, x), Text(n, v, y), Text(n, w, x), Text(m, v, x)}

\* One file has the dashboard; the other one is not there, or has it too.
Initial == {[k \in Files |-> IF k = f1 THEN Text(n, v, x) ELSE c] : c \in {None, Text(n, v, y)}}
===============================================================================
