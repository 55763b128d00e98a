------------------------------- MODULE MCSysFd -------------------------------
(* Model values, bounds and typed inputs for checking SysFd with TLC.      *)
EXTENDS SysFd

CONSTANTS pg1, pg2, pg3, pg4, pg5, garbage

MCPages == {pg1, pg2, pg3, pg4, pg5}
MCNames == {<<"f">>}

\* Lines typed to nsh, character by character.
PipeLine == <<"e", " ", "|", " ", "c", "\n">>                      \* e | c
Pipe3Line == <<"e", " ", "|", " ", "c", " ", "|", " ", "c", "\n">> \* e | c | c
OutLine == <<"e", " ", ">", " ", "f", "\n">>                       \* e > f
InLine == <<"c", " ", "<", " ", "f", "\n">>                        \* c < f
OutPipeLine == <<"e", " ", ">", " ", "f", " ", "|", " ", "c", "\n">> \* e > f | c
EmptyLine == <<"\n">>
EchoLine == <<"e", "\n">>
BlankLine == <<" ", "\n">>
UptimeLine == <<"u", " ", "1", "\n">>                              \* u 1
UsageLine == <<"u", " ", "x", " ", "|", " ", "c", "\n">>            \* u x | c

\* Each script is typed in full, then the input ends (ctrl-D).
MCScripts ==
  { <<PipeLine>>, <<Pipe3Line>>, <<OutLine, InLine>>, <<OutPipeLine, InLine>>,
    <<EmptyLine, EchoLine>>, <<BlankLine>>, <<UptimeLine, UsageLine>> }

\* The script the finding's run types.
MCRaceScripts == { <<OutPipeLine>> }
=============================================================================
