----------------------------- MODULE MCBrowser -----------------------------
(* Scenes of Browser for TLC, chosen in the initial state.                 *)
EXTENDS Browser

VARIABLE scene

\* Views that do not exist yet are all alike.
Perms == Permutations(View)

\* Left Control, t, w, l, Tab, Return, Escape, BackSpace.
ChromeKeys == {\h1D, \h14, \h11, \h26, \h0F, \h1C, \h01, \h0E}

\* Every part of the strip and the toolbar for one, two and three tabs.
Places == {20, 70, 110, 150, 180, 210, 240, 270}
Click(area, x) == \E held \in {{}, {"left"}} : Mouse(area, x, held)

\* Tabs, address and toolbar: keys, clicks and pages, no rendering, and no page
\* that changes its address or title by itself.  Keys that only go to the page are
\* left to the keyboard's scene, and the events after the window's close button
\* are those before it.
ChromeStep ==
  \/ LoopStep
  \/ /\ loop = "run"
     /\ \/ /\ browser.editing \/ "ctrl" \in browser.modifiers
           /\ \E code \in ChromeKeys : Key(code, FALSE, TRUE)
        \/ \E pressed \in BOOLEAN : Key(\h1D, FALSE, pressed)
        \/ \E x \in Places : Click("strip", x)
        \/ \E x \in {70, 150} : Click("toolbar", x)
        \/ Click("page", 70)
        \/ \E v \in View : on_progress(v) \/ on_load(v) \/ PageCreates(v) \/ on_close(v)

\* Titles, history and addresses of two tabs while they come, go and change, and
\* the address field is edited or not.
TitlesStep ==
  /\ \/ \E x \in {20, 110, 150, 240} : Click("strip", x)
     \/ Click("toolbar", 150) \/ Click("page", 70)
     \/ \E v \in View : PageStep(v)
  /\ Len(browser'.tabs) <= 2
  /\ \A v \in View : views'[v].history \subseteq {"back"} /\ ~views'[v].progress

\* Frames while tabs are opened, changed and closed.
FramesStep ==
  \/ \E x \in {20, 110, 180} : Click("strip", x)
  \/ \E v \in View : FrameStep(v) \/ PageCreates(v) \/ on_close(v)

\* One page and every key of the keyboard.
KeyboardStep ==
  /\ \E code \in 0 .. \h5D, extended, pressed \in BOOLEAN : Key(code, extended, pressed)
  /\ browser'.tabs = browser.tabs /\ ~browser'.editing

SceneInit ==
  /\ Init
  /\ scene \in {"chrome", "titles", "frames", "keyboard"}
  /\ scene # "titles" => browser.address = START_PAGE
SceneNext ==
  /\ \/ scene = "chrome" /\ ChromeStep
     \/ scene = "titles" /\ TitlesStep
     \/ scene = "frames" /\ FramesStep
     \/ scene = "keyboard" /\ KeyboardStep
  /\ UNCHANGED scene
SceneSpec == SceneInit /\ [][SceneNext]_<<vars, scene>>
=============================================================================
