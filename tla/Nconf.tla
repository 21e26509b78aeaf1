---------------------------------- MODULE Nconf ----------------------------------
(***************************************************************************)
(* nconfig: buildroot/support/kconfig/nconf.c.                             *)
(***************************************************************************)
EXTENDS FrontEnd

\* conf asks again whether the item is visible before it does anything with it.
Asked(n) == MenuIsVisible(d, n, st)

\* conf, Enter and the right arrow.
NOpen ==
    /\ At({"menu"})
    /\ \E i \in Items :
         /\ Asked(i.node).ok
         /\ Push(OpenedBy(i, Asked(i.node).st), i.node, Asked(i.node).st)
    /\ Looking

\* conf, the keys y, n, m, the space bar, and Enter on what does not open.
NSet ==
    /\ At({"menu"})
    /\ Counted
    /\ \E i \in Tagged({"t"}), key \in {"y", "n", "m", "toggle"} :
         /\ Asked(i.node).ok
         /\ SetTo(i.node.sym, KeyValue(key, i.node.sym, Asked(i.node).st), Asked(i.node).st,
                  screens)

\* Escape, F5 and the left arrow.
NLeave ==
    /\ At({"menu", "choice", "string"})
    /\ Back

\* conf_choice: a visible member becomes y if it can.
NChoose ==
    /\ At({"choice"})
    /\ Counted
    /\ \E i \in Items :
         /\ i.node.sym # None
         /\ Asked(i.node).ok
         /\ SetTo(i.node.sym, Yes, Asked(i.node).st, Front(screens))

\* conf_string.
NString ==
    /\ At({"string"})
    /\ Counted
    /\ TypeString

\* The function keys work in menus and in the lists of choices
\* (process_special_keys): F4 shows all or not, F6 saves, F7 loads, F8
\* searches, F9 exits.
NShowAll ==
    /\ At({"menu", "choice"})
    /\ Show(screens, ~showall, st)
    /\ Looking

NSave == At({"menu", "choice"}) /\ Counted /\ \E name \in Names : SaveTo(name)
NLoad == At({"menu", "choice"}) /\ Counted /\ \E name \in Names : LoadFrom(name)

\* search_conf shows what it has found, and no more.
NSearch ==
    /\ At({"menu", "choice"})
    /\ \E n \in Prompted :
         Show(screens, showall, MenuIsVisible(d, n, Found(n).st).st)
    /\ Looking

\* do_exit, by F9 or from the main menu, and the answers to its question.
NExit ==
    /\ At({"menu", "choice"})
    /\ TryToEnd

NConfirm ==
    /\ At({"exit"})
    /\ SaveAndEnd \/ FailAndEnd \/ DiscardAndEnd \/ Back

NNext ==
    /\ frontend = "nconf"
    /\ \/ NOpen \/ NSet \/ NLeave \/ NChoose \/ NString \/ NShowAll \/ NSave
       \/ NLoad \/ NSearch \/ NExit \/ NConfirm
    /\ UNCHANGED <<frontend, kconfig>>

=============================================================================
