----------------------------- MODULE MCReleaseApply -----------------------------
(* Small instances of ReleaseApply: a repository with two units, one that is *)
(* released after them, and the stack.                                       *)
EXTENDS ReleaseApply

MCRepo == {"lib", "app", "stack"}
MCOrder == <<"core", "lib", "app", "stack">>
MCRepoOf == [u \in Range(MCOrder) |-> IF u = "core" THEN "lib" ELSE u]
MCTrigger == [u \in Range(MCOrder) |-> IF u = "app" THEN {"lib"} ELSE {}]
\* the lock file that a release of core edits belongs to lib
MCEdits == [u \in Range(MCOrder) |-> IF u = "core" THEN {"core", "lib"} ELSE {u}]
================================================================================
