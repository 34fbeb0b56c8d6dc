------------------------ MODULE MCInterfaceLifecycle ------------------------
(* Small instances of the interface lifecycle for TLC. *)
EXTENDS InterfaceLifecycle, TLC

\* Bound: a row that uses the id again is a managed one; the status is asked for once
\* and reports are late only for the first row; two requests of the administrator are
\* inside the controller at once only for a manual row that is the first one and whose
\* status is not asked for.
Overlaps == Cardinality({h \in Handler : handler[h] # Idle}) > 1
Queries  == Find({"status"}, Status \ {"absent"})
Bounded  == /\ Cardinality(Queries) <= 1
            /\ \A t \in Queries \cup late : task[t].inst = 1
            /\ inst = 2 => kind = "managed-node"
            /\ Overlaps => kind = "manual" /\ inst <= 1 /\ Queries = {}

BoundedSpec == Init /\ [][Next /\ Bounded']_vars

Symmetry == Permutations(Handler) \cup Permutations(Config)
=============================================================================
