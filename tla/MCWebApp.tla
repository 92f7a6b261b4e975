------------------------------- MODULE MCWebApp -------------------------------
(***************************************************************************)
(* Instances of WebApp for TLC.                                            *)
(***************************************************************************)
EXTENDS WebApp, MCTools

\* Two texts, one of them also with blanks at its end.
MCLines ==
    {[text |-> "a", tail |-> FALSE], [text |-> "a", tail |-> TRUE],
     [text |-> "b", tail |-> FALSE]}

\* Around every limit: 15 s, 20 s, 25 s, 30 s and 45 s.
MCLatencies == {10, 15, 22, 28, 40, 50}
=============================================================================
