------------------------------- MODULE MCRepos -------------------------------
(***************************************************************************)
(* Instances of Repos for TLC.                                             *)
(***************************************************************************)
EXTENDS Repos

CONSTANTS A, B, weights, card

Line(path, xet_hash, oid, content, sized) ==
    [path |-> path, xet_hash |-> xet_hash, oid |-> oid, content |-> content,
     sized |-> sized]

\* A file transferred beforehand with its size, an inline one, and one commit of
\* both: what hf_hub sends.
ClientPayloads ==
    {<<Line(weights, NULL, A, NULL, TRUE)>>,
     <<Line(card, NULL, NULL, B, FALSE), Line(weights, NULL, A, NULL, TRUE)>>}

\* Every way an entry can be resolved or refused: an Xet hash with and without a
\* size, inline content under its oid and under another, no size, no backend,
\* one path twice, and no file at all (a commit of deletions, which are skipped).
OddPayloads ==
    {<<>>,
     <<Line(weights, A, NULL, NULL, TRUE)>>,
     <<Line(weights, A, NULL, NULL, FALSE)>>,
     <<Line(weights, NULL, A, A, FALSE)>>,
     <<Line(weights, NULL, A, B, FALSE)>>,
     <<Line(weights, NULL, A, NULL, FALSE)>>,
     <<Line(weights, NULL, NULL, NULL, TRUE)>>,
     <<Line(weights, NULL, NULL, A, FALSE), Line(weights, NULL, NULL, B, FALSE)>>}

AllPayloads == ClientPayloads \cup OddPayloads

=============================================================================
