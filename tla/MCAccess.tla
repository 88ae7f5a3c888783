------------------------------ MODULE MCAccess ------------------------------
(***************************************************************************)
(* Instances of Access for TLC.                                            *)
(***************************************************************************)
EXTENDS Access, TLC

\* Requests run the same code, and so do processes; names of rows are random.
Symmetry == Permutations(Requests) \cup Permutations(Processes)
                \cup Permutations(Sessions) \cup Permutations(Tokens)
                \cup Permutations(Keys)

Rows == {k \in Keys : key[k] # NULL}
Busy == {r \in Requests : request[r] # Idle}

\* The bound of the search, in two scenes: two sessions, or two requests under
\* way, meet at most one api_keys row, and no repository or no token; one
\* request and one session meet everything.
Scenes ==
    /\ (\A s \in Sessions : session[s] # NULL) => owners = {} /\ Cardinality(Rows) <= 1
    /\ Cardinality(Busy) > 1 =>
          (\A t \in Tokens : token[t] = NULL) /\ Cardinality(Rows) <= 1

=============================================================================
