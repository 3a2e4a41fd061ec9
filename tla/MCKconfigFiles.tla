--------------------------- MODULE MCKconfigFiles ---------------------------
(* Two versions of a small Kconfig file. In the first:                         *)
(*   M    bool, option modules; option allnoconfig_y                          *)
(*   A    tristate with a prompt, default m                                   *)
(*   GONE  int with a prompt, range 1 2 if A, default 1                          *)
(*   CH   tristate choice, depends on A, default Y, of the symbols               *)
(*     X  tristate, implies T                                               *)
(*     Y  bool, prompt if GONE != 2                                           *)
(*   T    tristate with a prompt, depends on A, selected by A if GONE = 2         *)
(* In the second GONE is gone, while the other properties still name it, and the    *)
(* bool LATE with a prompt, default y if T, has come.                              *)
EXTENDS KconfigFiles

c(v) == <<"const", v>>
it(i) == <<"item", i>>
YES == c(2)
NO == c(0)
Sym(type, choice, prompts, defaults, dep, rev, weak) ==
  [kind |-> "sym", type |-> type, choice |-> choice, prompts |-> prompts, defaults |-> defaults,
   ranges |-> <<>>, direct_dep |-> dep, rev_dep |-> rev, weak_rev_dep |-> weak, env |-> FALSE]

\* old is GONE, or for the undefined symbol its name: no number.
DefsWith(old) ==
  [M |-> Sym("bool", "none", <<YES>>, <<>>, YES, NO, NO),
   A |-> Sym("tristate", "none", <<YES>>, << <<c(1), YES>> >>, YES, NO, NO),
   CH |-> [kind |-> "choice", type |-> "tristate", prompts |-> <<it("A")>>, optional |-> FALSE,
           defaults |-> << << it("Y"), YES>> >>, syms |-> <<"X", "Y">>, direct_dep |-> it("A")],
   X |-> Sym("tristate", "CH", <<it("CH")>>, <<>>, it("CH"), NO, NO),
   Y |-> Sym("bool", "CH", << <<"and", <<"!=", old, c(2)>>, it("CH")>> >>, <<>>, it("CH"), NO, NO),
   T |-> Sym("tristate", "none", <<it("A")>>, <<>>, it("A"),
             <<"and", it("A"), <<"=", old, c(2)>> >>, it("X"))]
GONEDef == [Sym("int", "none", <<YES>>, << <<c(1), YES>> >>, YES, NO, NO) EXCEPT
             !.ranges = << <<c(1), c(2), it("A")>> >>]
LATEDef == Sym("bool", "none", <<it("T")>>, << <<YES, it("T")>> >>, it("T"), NO, NO)

MCTrees ==
  << [defs |-> ("GONE" :> GONEDef) @@ DefsWith(it("GONE")),
      order |-> <<"M", "A", "GONE", "X", "Y", "T">>, nodes |-> <<"M", "A", "GONE", "CH", "X", "Y", "T">>,
      known |-> {"M", "A", "GONE", "X", "Y", "T"}, allnoY |-> {"M"}],
     [defs |-> ("LATE" :> LATEDef) @@ DefsWith(c(3)),
      order |-> <<"M", "A", "X", "Y", "T", "LATE">>, nodes |-> <<"M", "A", "CH", "X", "Y", "T", "LATE">>,
      known |-> {"M", "A", "GONE", "X", "Y", "T", "LATE"}, allnoY |-> {"M"}] >>

MCHandWritten ==
  { << <<"M", 2>>, <<"A", 2>>, <<"A", 1>>, <<"X", 1>>, <<"GONE", 2>> >>,
    << <<"A", 2>>, <<"Z", 2>>, <<"X", 2>>, <<"T", -3>> >> }
MCAbsent == << <<"absent", 0>> >>
MCFragments ==
  (".defconfig" :> << <<"M", 2>>, <<"T", 1>> >>) @@ ("alldef.config" :> MCAbsent)
  @@ ("allno.config" :> << <<"A", 2>> >>) @@ ("allyes.config" :> MCAbsent)
  @@ ("allmod.config" :> MCAbsent) @@ ("all.config" :> << <<"GONE", 2>> >>)
MCDefconfigList == << <<"all.config", NO>>, <<".defconfig", it("A")>> >>
MCSetArgs == { << <<"A", 2>>, <<"T", 1>> >>, << <<"Y", 2>>, <<"Z", 1>> >> }
MCCuts(n) == {0, n - 1} \cap Nat
MCAnswers == [M |-> {2}, A |-> {0}, GONE |-> {2}, X |-> {1}, Y |-> {2}, T |-> {2}, LATE |-> {0}]
=============================================================================
