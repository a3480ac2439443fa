---------------------------- MODULE MCAgentLoop ----------------------------
EXTENDS AgentLoop
\* A file and a skill are read with one tool; a list is written with open tasks or without.
MCToolOf ==
  ("read" :> "read_file") @@ ("skill" :> "read_file") @@ ("task" :> "task") @@
  ("ask" :> "ask_clarification") @@ ("plan" :> "write_todos") @@ ("finish" :> "write_todos")
MCAnswers ==
  {<< >>, <<"plan">>, <<"skill", "finish">>, <<"plan", "finish", "read">>, <<"ask", "read">>,
   <<"task", "task">>}
=============================================================================
