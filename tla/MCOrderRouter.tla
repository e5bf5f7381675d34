--------------------------- MODULE MCOrderRouter ---------------------------
(***************************************************************************)
(* OrderRouter with one name per venue the registry holds and one more,    *)
(* ids of four bits, and configuration files with and without mistakes.    *)
(***************************************************************************)
EXTENDS OrderRouter

File(v, s, r) == [venues |-> v, states |-> << <<"A", s>> >>, routes |-> r]

(* A good file; a venue named twice, a state that does not parse, a symbol *)
(* that does not, a route to nowhere.                                      *)
MCConfigs ==
    {File(<<"A", "B">>, "Up", << <<1, "A">>, <<1, "B">> >>),
     File(<<"A", "A">>, "Up", << <<1, "A">> >>),
     File(<<"A", "B">>, "?", << <<1, "A">> >>),
     File(<<"A">>, "Up", << <<1, "A">>, <<-1, "A">> >>),
     File(<<"A">>, "Up", << <<1, "C">> >>)}

=============================================================================
