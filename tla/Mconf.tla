---------------------------------- MODULE Mconf ----------------------------------
(***************************************************************************)
(* menuconfig: buildroot/support/kconfig/mconf.c.                          *)
(***************************************************************************)
EXTENDS FrontEnd

\* conf, Select.
MOpen ==
    /\ At({"menu"})
    /\ \E i \in Items : Push(OpenedBy(i, st), i.node, st)
    /\ Looking

\* conf, the keys y, n, m and the space bar.
MSet ==
    /\ At({"menu"})
    /\ Counted
    /\ \E i \in Tagged({"t"}), key \in {"y", "n", "m", "toggle"} :
          SetTo(i.node.sym, KeyValue(key, i.node.sym, st), st, screens)

\* Exit from a screen that is not the main menu, and Escape.
MLeave ==
    /\ At({"menu", "choice", "string"})
    /\ Back

\* The key z.
MShowAll ==
    /\ At({"menu"})
    /\ Show(screens, ~showall, st)
    /\ Looking

\* conf_choice: the member becomes y if it can.
MChoose ==
    /\ At({"choice"})
    /\ Counted
    /\ \E i \in Items :
          i.node.sym # None /\ SetTo(i.node.sym, Yes, st, Front(screens))

\* conf_string.
MString ==
    /\ At({"string"})
    /\ Counted
    /\ TypeString

\* search_conf: from a result to the menu that holds the entry, or its nearest
\* visible menu.
GoTo(n, found) ==
    LET entry == MenuIsVisible(d, n, found.st)
    IN  /\ found.seen # <<>>
        /\ Push("menu", Around(IF entry.ok THEN n ELSE found.seen[1], d.menu)[1], entry.st)

MSearch ==
    /\ At({"menu"})
    /\ \E n \in Prompted : GoTo(n, Found(n))
    /\ Looking

MSave == At({"menu"}) /\ Counted /\ \E name \in Names : SaveTo(name)
MLoad == At({"menu"}) /\ Counted /\ \E name \in Names : LoadFrom(name)

\* handle_exit, once the main menu is left, and the answers to its question.
MExit ==
    /\ At({"menu"})
    /\ Len(screens) = 1
    /\ TryToEnd

MConfirm ==
    /\ At({"exit"})
    /\ SaveAndEnd \/ FailAndEnd \/ DiscardAndEnd \/ Back

MNext ==
    /\ frontend = "mconf"
    /\ \/ MOpen \/ MSet \/ MLeave \/ MShowAll \/ MChoose \/ MString \/ MSearch
       \/ MSave \/ MLoad \/ MExit \/ MConfirm
    /\ UNCHANGED <<frontend, kconfig>>

=============================================================================
