-------------------------- MODULE MCKconfigValues --------------------------
(* A small Kconfig tree in which every kind of property occurs:                *)
(*   MODULES  bool, option modules                                           *)
(*   A        tristate with a prompt, default m                              *)
(*   N        int with a prompt, range 1 2 if A, default 1                    *)
(*   CH       tristate choice, depends on A, of the symbols                    *)
(*     X      tristate, implies T                                           *)
(*     Y      bool, prompt if N != 1                                         *)
(*   T        tristate, depends on A, selected by A if N = 2, default y if !A   *)
EXTENDS KconfigValues, DepGraph

c(v) == <<"const", v>>
it(i) == <<"item", i>>
YES == c(2)
NO == c(0)
Sym(type, choice, prompts, defaults, dep, rev, weak) ==
  [kind |-> "sym", type |-> type, choice |-> choice, prompts |-> prompts, defaults |-> defaults,
   ranges |-> <<>>, direct_dep |-> dep, rev_dep |-> rev, weak_rev_dep |-> weak, env |-> FALSE]

MCDefs ==
  [M |-> Sym("bool", "none", <<YES>>, <<>>, YES, NO, NO),
   A |-> Sym("tristate", "none", <<YES>>, << <<c(1), YES>> >>, YES, NO, NO),
   N |-> [Sym("int", "none", <<YES>>, << <<c(1), YES>> >>, YES, NO, NO) EXCEPT
            !.ranges = << <<c(1), c(2), it("A")>> >>],
   CH |-> [kind |-> "choice", type |-> "tristate", prompts |-> <<it("A")>>, optional |-> FALSE,
           defaults |-> << <<it("Y"), YES>> >>, syms |-> <<"X", "Y">>, direct_dep |-> it("A")],
   X |-> Sym("tristate", "CH", <<it("CH")>>, <<>>, it("CH"), NO, NO),
   Y |-> Sym("bool", "CH", << <<"and", <<"!=", it("N"), c(1)>>, it("CH")>> >>, <<>>, it("CH"), NO, NO),
   T |-> Sym("tristate", "none", <<it("A")>>, << <<YES, <<"not", it("A")>> >> >>, it("A"),
             <<"and", it("A"), <<"=", it("N"), c(2)>> >>, it("X"))]

MCInputs ==
  [M |-> {None, 2}, A |-> {None, 0, 2}, N |-> {None, 0, 2},
   CH |-> [mode : {None, 2}, sel : {"none", "X", "Y"}],
   X |-> {None, 2}, Y |-> {None, 2}, T |-> {None, 0}]
MCReadCells == {<<"A", "val">>, <<"Y", "val">>, <<"T", "val">>, <<"T", "asg">>,
                <<"N", "vis">>, <<"CH", "sel">>, <<"CH", "asg">>}
=============================================================================
