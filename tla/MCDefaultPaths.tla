--------------------------- MODULE MCDefaultPaths ---------------------------
(* Values of the constants of DefaultPaths for TLC. *)
EXTENDS DefaultPaths

CONSTANTS here, there

In(dir, name) == [dir |-> dir, name |-> name]

\* Files that share a stem, one that looks like a download, an artifact or a
\* recovered file, names that are not UTF-8, and a name in two directories.
MCOwn ==
  {In(here, <<"name">>), In(there, <<"name">>),
   In(here, <<"name", ".", "json">>),
   In(here, <<"ab", ".", "json">>), In(here, <<"ab">>),
   In(here, <<"ab", ".", "pqsp-receipt">>),
   In(there, <<BAD>>), In(there, <<BAD, ".", "json">>)}

\* A root with and without its prefix, another one, and texts that are none.
MCRoots ==
  {<<"0x", "ab">>, <<"ab">>, <<"cd">>,
   <<"ab", ".", "pqsp-receipt">>, <<".", ".", "/", "name">>, <<>>}
=============================================================================
