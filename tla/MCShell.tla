------------------------------ MODULE MCShell -------------------------------
(* A small instance of Shell: programs p and q, an input file f, and one line  *)
(* for each kind of command.  The one whose input file is missing is not part  *)
(* of a chain, which would go by the program before it (see the README).       *)
EXTENDS Shell, TLC

MCFiles == {"p", "q", "f"}
MCLines == {
  <<"p", "NULL">>, <<"p", "<", "x", "NULL">>, <<"p", "-x", "&", "NULL">>, <<"p", "<", "f", ">", "o", "NULL">>,
  <<"p", "-x", ">", "o", "&", "NULL">>,
  <<"p", "&&", "info", "&&", "q", "&", "&&", "p", "NULL">>,
  <<"info", "NULL">>, <<"wait", "n", "NULL">>, <<"terminate", "n", "NULL">>,
  <<"r", "NULL">>, <<"quit", "NULL">>}

=============================================================================
