----------------------------- MODULE MCAttempt -----------------------------
(***************************************************************************)
(* One subtask, of every kind of specialist: one with tools, one that      *)
(* reads plain text, one that is judged by its replies' form alone, one    *)
(* that asks no model, and a name nobody registered.                       *)
(***************************************************************************)
EXTENDS Attempt

MCBatches == {<<>>, <<"python_exec">>, <<"pytest_run", "python_exec">>,
              <<"pytest_run", "file_write", "pytest_run">>, <<"browse", "web_search", "shell">>}
=============================================================================
