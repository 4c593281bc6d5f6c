-------------------------- MODULE MCWorktreeScope ---------------------------
(* A small repository: two sources and an ignored secret.                  *)
EXTENDS WorktreeScope, TLC

Source == <<"src", "main">>
Locked == <<"src", "locked">>
Secret == <<"keys", "secret">>

MCFile    == {Source, Locked, Secret}
MCIgnored == {Secret}

MCSymmetry == Permutations(Content)

\* The patterns of the tests and docs: a file, a directory, a glob, a deep
\* glob, the whole repository.  The scope of one file leaves Locked out of it
\* without fingerprinting it.
MCRequests ==
    {[mode |-> "read",  allowed |-> {WholeRepo},       forbidden |-> {<<"keys", "**", "secret">>}],
     [mode |-> "write", allowed |-> {<<"src">>},       forbidden |-> {Locked}],
     [mode |-> "write", allowed |-> {<<"src", "*">>},  forbidden |-> {<<"keys">>}],
     [mode |-> "write", allowed |-> {Source},          forbidden |-> {}],
     [mode |-> "write", allowed |-> {<<"src", "**">>, <<"doc">>}, forbidden |-> {<<"keys", "**">>}]}
=============================================================================
