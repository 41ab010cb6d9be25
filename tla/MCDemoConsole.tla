--------------------------- MODULE MCDemoConsole ---------------------------
(***************************************************************************)
(* DemoConsole for TLC.                                                    *)
(***************************************************************************)
EXTENDS DemoConsole, TLC

=============================================================================
