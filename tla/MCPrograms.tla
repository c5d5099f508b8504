---------------------------- MODULE MCPrograms ------------------------------
\* Small instances of the programs for TLC.
EXTENDS Programs

CONSTANTS a, b, none      \* model values

MCTagInfos == {<<>>, <<a>>, <<b>>, <<none, b>>, <<b, a>>}
=============================================================================
