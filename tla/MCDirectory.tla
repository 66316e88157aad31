---------------------------- MODULE MCDirectory -----------------------------
(* A small file system: two names, one the beginning of the other; one that is too *)
(* long for an entry; and ".".                                                     *)
EXTENDS Directory

MCNames   == {<<"a">>, <<"a", "b">>, <<"a", "b", "a", "b">>, DOT}
MCPaths   == {<<>>, <<DOTDOT>>, <<<<"a">>, DOTDOT>>, <<<<"a", "b">>, DOTDOT>>,
              <<<<"a">>, <<"a", "b">>>>, <<<<"a", "b">>, <<"a">>>>} \cup {<<n>> : n \in MCNames}
MCFresh   == {<<>>, <<"a", "b">>}
MCProgram == <<"a">>

\* What later steps depend on: of the entries behind the size only the bytes of their
\* names; of "." and ".." not the bytes behind them, since no name given has others
\* behind a dot; and only the kind of command once the tree is broken
Entry(d, s) ==
  LET e == dir[d][s]
  IN CASE s > inode[d].size               -> [d_name |-> e.d_name]
       [] NameOf(e) \in {DOT, DOTDOT}     -> [d_ino |-> e.d_ino]
       [] OTHER                           -> e

View ==
  IF broken THEN <<"broken", call.op>>
  ELSE <<inode, cwd, ai, call, moved, crashes, [d \in Inos |-> [s \in 1..Len(dir[d]) |-> Entry(d, s)]]>>
=============================================================================
