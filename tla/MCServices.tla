----------------------------- MODULE MCServices -----------------------------
(***************************************************************************)
(* Services for TLC, with values for the constants that are sequences and  *)
(* with the Interpreter, whose recursive operators no proof can reach, as  *)
(* one component more.                                                     *)
(***************************************************************************)
EXTENDS Services, Interpreter, TLC

\* Values of constants.

UserFile == <<"user">>

\* A migration that creates a table and adds a column, and one that changes data.
SmallSteps == << <<"create", "column">>, <<"data">> >>

\* Bodies of at most two statements, of loops and conditions in the main program.
Simples   == {Prints(1), Simple("call"), Simple("fail")}
Inner     == Simples \cup {Simple("break"), Simple("continue")}
Bodies    == {<<a>> : a \in Inner} \cup {<<a, b>> : a, b \in Inner}
Compounds == {Compound(op, body) : op \in {"for", "while", "if"}, body \in Bodies}
Endings   == {Prints(2), Simple("call"), Simple("import"), Compound("while", <<Prints(2)>>)}

SmallMains     == {<<a, b>> : a \in Simples \cup Compounds, b \in Endings}
SmallFunctions ==
  {<<Prints(3)>>, <<Prints(3), Simple("return"), Prints(4)>>, <<Prints(3), Simple("fail")>>,
   <<Prints(3), Simple("call")>>, <<Compound("while", <<Prints(3), Simple("return")>>)>>,
   <<Compound("for", <<Prints(3), Simple("continue")>>)>>}

\* Two names, of which one leads out of the session's directory into another's.
PathNames == {"n", "../s1/n"}
Resolved  == [x \in Scopes \X OutputKeys |-> IF x[2] = <<"../s1/n">> THEN <<"s1", <<"n">>>> ELSE x]
-----------------------------------------------------------------------------
allVars == <<vars, interpreterVars>>

AllInit ==
  /\ Init /\ InterpreterInit
  /\ focus # "scripts" => script = [function |-> <<Prints(3)>>, main |-> <<Prints(1), Prints(2)>>]

AllNext ==
  \/ Next /\ UNCHANGED interpreterVars
  \/ focus = "scripts" /\ InterpreterNext /\ UNCHANGED vars

AllSpec == AllInit /\ [][AllNext]_allVars

\* Scripts of the interpreter print what Python prints and end within their
\* budget (Interpreter.tla).
ScriptsRunAsPython ==
  focus = "scripts" => InterpreterTypeOK /\ PrintsAsPython /\ EndsInBudget
=============================================================================
