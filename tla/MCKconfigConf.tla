----------------------------- MODULE MCKconfigConf -----------------------------
(***************************************************************************)
(* Instances of KconfigConf over the Kconfig files of MCKconfig.           *)
(***************************************************************************)
EXTENDS KconfigConf, MCKconfig

MCTrees ==
    LET given == <<Modular, Choosing, ChoosingModules, Numbers, Nested>> IN given

MCStarts ==
    <<{Absent, <<Of("MODULES", "y"), Of("T", "m"), Of("A", "y")>>},
      {Absent, <<Of("A", "n"), Of("M1", "n"), Of("M2", "y"), Of("OLD", "y")>>},
      {Absent, <<Of("MODULES", "y"), Of("A", "n"), Of("T", "n"), Of("U", "m")>>},
      {Absent, <<Of("N", "2"), Of("H", "0x4")>>},
      {Absent, <<Of("A", "y"), Of("B", "n"), Of("T", "y"), Of("U", "y"), Of("M1", "n")>>}>>
MCFiles == [k \in DOMAIN MCStarts |->
               {IF f = Absent THEN Absent ELSE [lines |-> f, whole |-> TRUE] : f \in MCStarts[k]}]

MCDefconfigs ==
    <<{[lines |-> <<Of("A", "y")>>, whole |-> TRUE]},
      {[lines |-> <<Of("A", "y"), Of("M2", "y")>>, whole |-> TRUE]},
      {Absent},
      {[lines |-> <<Of("A", "y"), Of("H", "0x7")>>, whole |-> TRUE]},
      {[lines |-> <<Of("C", "y")>>, whole |-> TRUE]}>>

MCPick(t, m) == [tri |-> [s \in Declared |-> t],
                 member |-> [c \in {"CH", "CT"} |-> m[c]]]
MCPicks == [k \in DOMAIN MCTrees |->
               {MCPick(0, [CH |-> "M1", CT |-> "T"]), MCPick(1, [CH |-> "M2", CT |-> "U"]),
                MCPick(2, [CH |-> "M2", CT |-> "U"])}]

=============================================================================
