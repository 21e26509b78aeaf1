------------------------------ MODULE MCMenuconfig ------------------------------
(***************************************************************************)
(* Instances of Menuconfig: the Kconfig files of MCKconfig and two with a  *)
(* recursion.                                                              *)
(***************************************************************************)
EXTENDS Menuconfig, MCKconfig

Looping == <<Config("A", B, <<>>), Config("B", Null, <<Prop("default", Sym("C"), Null)>>),
             Config("C", Null, <<Prop("select", "A", Null)>>), Config("T", Null, <<>>)>>
LoopingChoice ==
    <<Config("A", Sym("M1"), <<>>),
      ChoiceBlock("CH", <<>>, <<Config("M1", Null, <<>>), Config("M2", A, <<>>)>>)>>

MCTrees ==
    LET given == <<Modular, Choosing, ChoosingModules, Numbers, Nested>>
    IN  given \o <<Looping, LoopingChoice>>

MCStarts ==
    <<{Absent, <<Of("MODULES", "y"), Of("T", "m"), Of("A", "y")>>},
      {Absent, <<Of("A", "n"), Of("M1", "n"), Of("M2", "y"), Of("OLD", "y")>>,
       <<Of("A", "y"), Of("M1", "y"), Of("M2", "n"), Of("C", "y"), Of("B", "y")>>},
      {<<Of("MODULES", "y"), Of("A", "n"), Of("T", "n"), Of("U", "m")>>,
       <<Of("MODULES", "y"), Of("A", "y"), Of("T", "y"), Of("U", "n")>>},
      {Absent, <<Of("A", "n"), Of("N", "2"), Of("H", "0x4")>>},
      {Absent, <<Of("A", "y"), Of("B", "n"), Of("T", "y"), Of("U", "y"), Of("M1", "n")>>},
      {Absent}, {Absent}>>

=============================================================================
