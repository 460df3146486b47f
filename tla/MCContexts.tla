------------------------------ MODULE MCContexts ------------------------------
(* Every pattern of a column over two names, and a few lines of the other    *)
(* classes; two lines have the same pattern and different labels.            *)
EXTENDS Contexts

MCName == {1, 2}

Columns == {[class |-> "db_column", path |-> p, label |-> 100 * p[1] + 10 * p[2] + p[3]] :
              p \in {<<0, 0, 0>>, <<0, 0, 1>>, <<0, 1, 0>>, <<0, 1, 1>>,
                     <<1, 0, 0>>, <<1, 0, 2>>, <<1, 1, 0>>, <<1, 1, 1>>}}

MCLine ==
  Columns
  \cup {[class |-> "db_column", path |-> <<0, 1, 0>>, label |-> 1001],
        [class |-> "db_table", path |-> <<0, 2>>, label |-> 1002],
        [class |-> "db_table", path |-> <<0, 0>>, label |-> 1003],
        [class |-> "db_database", path |-> <<0>>, label |-> 1004],
        [class |-> "db_view", path |-> <<1, 0>>, label |-> 1005],
        [class |-> "db_tuple", path |-> <<0, 0>>, label |-> 1006],
        [class |-> "#", path |-> << >>, label |-> 1007]}

===============================================================================
