-------------------------- MODULE MCConfigMigration --------------------------
(* Two layers that give one context a stack, cloud credentials and a data    *)
(* source, a part of a stack, or a part of the rest.                         *)
EXTENDS ConfigMigration

CONSTANTS a, b, x, y

Says(e) == [c \in Contexts |-> e]
One(S)  == [f \in S |-> IF f = a THEN y ELSE None]
All(S)  == [f \in S |-> x]

Full  == Says([stack |-> All(StackFields), cloud |-> All(CloudFields),
               map |-> All(Kinds), flat |-> Nothing(Kinds)])
Part  == Says([stack |-> One(StackFields), cloud |-> Nothing(CloudFields),
               map |-> Nothing(Kinds), flat |-> Nothing(Kinds)])
Aside == Says([stack |-> Nothing(StackFields), cloud |-> One(CloudFields),
               map |-> Nothing(Kinds), flat |-> One(Kinds)])
Some  == {Full, Part, Aside, Convert(Aside)}

\* An earlier command has migrated layer 1, or nothing is migrated; the one rewrite may
\* make the second set one that can be proven, or one that has no stack in two layers.
Initial == {<<Migrated(Full), Legacy(Part)>>, <<Legacy(Full), Legacy(Part)>>}

\* The file of layer 1 is also loaded where there is no other layer.
Chosen  == {k \in Command : k.layer = IF k.op = "set" THEN 2 ELSE 1}

\* ViewStays is about this instance.
ASSUME OneAloneHere == OneAlone
===============================================================================
