----------------------------- MODULE SavedGame -----------------------------
(***************************************************************************)
(* What the session scripts promise about the game that a shutdown saves.  *)
(* Only a game that plays is saved, never over another one, and it is      *)
(* saved to the end before the console announces that it switches off; by  *)
(* then it is on the card.  The next start takes it, before anything else  *)
(* is started, and starts what it has taken; it is gone from the card's    *)
(* file system by then, so that it is taken once.  The OPK it may need is  *)
(* not forgotten before.  A power cut leaves what is in memory or what is  *)
(* on the card; only after a cut may a half-written game be found.         *)
(***************************************************************************)
CONSTANT Games      \* the ways to start a game: "plain", or "opk" from an OPK

VARIABLES
    on,         \* the console is switched on
    fresh,      \* ... and has not yet looked for a saved game
    announced,  \* ... and has announced that it switches off
    playing,    \* the game that plays, or is being saved
    saved,      \* the saved game: "none", "torn" while half-written, or a game
    taken,      \* the saved game that is about to be resumed
    known,      \* the OPK of the last game from an OPK is known
    card        \* saved and known as they are on the card

vars == <<on, fresh, announced, playing, saved, taken, known, card>>

Init ==
    /\ on = TRUE /\ fresh = TRUE /\ announced = FALSE
    /\ playing = "none" /\ saved = "none" /\ taken = "none"
    /\ known = FALSE /\ card = [saved |-> "none", known |-> FALSE]

\* The start of a session.  Of a half-written game nobody knows what it starts.
Take ==
    /\ on /\ fresh /\ fresh' = FALSE
    /\ taken' = saved /\ saved' = "none"
    /\ UNCHANGED <<on, announced, playing, known, card>>

Resume ==
    /\ taken # "none" /\ playing = "none"
    /\ taken' = "none"
    /\ playing' \in IF taken = "torn" THEN Games \cup {"none"} ELSE {taken}
    /\ UNCHANGED <<on, fresh, announced, saved, known, card>>

\* Games come and go; none is started while a saved one waits for the end.
Start(g) ==
    /\ on /\ ~fresh /\ taken = "none" /\ playing = "none"
    /\ saved = "none" \/ announced
    /\ playing' = g /\ known' = (known \/ g = "opk")
    /\ UNCHANGED <<on, fresh, announced, saved, taken, card>>

Leave ==
    /\ playing # "none" /\ saved # "torn"
    /\ playing' = "none"
    /\ UNCHANGED <<on, fresh, announced, saved, taken, known, card>>

Forget ==
    /\ ~fresh /\ "opk" \notin {playing, saved, taken}
    /\ known' = FALSE
    /\ UNCHANGED <<on, fresh, announced, playing, saved, taken, card>>

\* The end of a session.
BeginSave ==
    /\ playing # "none" /\ saved = "none" /\ ~announced
    /\ saved' = "torn"
    /\ UNCHANGED <<on, fresh, announced, playing, taken, known, card>>

EndSave ==
    /\ playing # "none" /\ saved = "torn"
    /\ saved' = playing /\ playing' = "none"
    /\ UNCHANGED <<on, fresh, announced, taken, known, card>>

Announce ==
    /\ on /\ ~announced /\ announced' = TRUE
    /\ fresh \/ saved = "none" \/ (saved # "torn" /\ card.saved = saved)
    /\ UNCHANGED <<on, fresh, playing, saved, taken, known, card>>

Write ==
    /\ card' = [saved |-> saved, known |-> known]
    /\ UNCHANGED <<on, fresh, announced, playing, saved, taken, known>>

\* The power goes off, and comes back.
Off ==
    /\ on /\ on' = FALSE /\ fresh' = TRUE /\ announced' = FALSE
    /\ playing' = "none" /\ taken' = "none"
    /\ card' = [saved |-> saved', known |-> known']

SwitchOff ==
    /\ announced /\ (saved = "torn" => fresh)
    /\ Off /\ UNCHANGED <<saved, known>>

Cut ==
    /\ saved' \in {saved, card.saved} /\ known' \in {known, card.known}
    /\ Off

SwitchOn ==
    /\ ~on /\ on' = TRUE
    /\ UNCHANGED <<fresh, announced, playing, saved, taken, known, card>>

Next ==
    \/ Take \/ Resume \/ (\E g \in Games : Start(g)) \/ Leave \/ Forget
    \/ BeginSave \/ EndSave \/ Announce \/ Write
    \/ SwitchOff \/ Cut \/ SwitchOn

Spec == Init /\ [][Next]_vars
=============================================================================
