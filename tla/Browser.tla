------------------------------ MODULE Browser ------------------------------
(***************************************************************************)
(* Orange Browser (userland/bin/orange-browser/browser.c and the views of  *)
(* peel-platform.c): tabs, the address field, keyboard and mouse input,    *)
(* and the frames WebKit hands over, all in one GLib main loop.            *)
(*                                                                         *)
(* The C program's `browser` structure, its views and the window's pixels  *)
(* are three variables; each C function is an operator from a state to a   *)
(* state, and a step of the main loop applies one handler.  The order of   *)
(* input events is the main loop's: the input thread queues whatever Peel  *)
(* sends, so any event may come next.  WebKit is external: it changes a    *)
(* page's URI and progress, asks for windows, and renders into buffers.    *)
(***************************************************************************)
EXTENDS Integers, Keymap, SequencesExt

CONSTANTS
  View,        \* web views; as many as can be open or still be referenced
  Buffer,      \* the buffers WebKit renders a view's frames into
  Uri,
  Title,       \* titles of pages
  START_PAGE,  \* the page of a new tab, and the one opened first
  TypedUrl,    \* what address_to_url makes of a typed address
  Empty,       \* no text
  Typed,       \* text typed into an empty field
  Mixed,       \* what is left of an address with text typed after it
  MAX_TABS,
  Width,       \* browser.window.width
  MaxIdle      \* bound: view_release calls queued per view

ASSUME BrowserAssumption ==
  /\ {START_PAGE, TypedUrl} \subseteq Uri
  /\ Uri \intersect {Empty, Typed, Mixed} = {} /\ Empty \notin {Typed, Mixed}
  /\ MAX_TABS \in Nat \ {0} /\ Width \in Nat /\ MaxIdle \in Nat
  /\ Title \intersect (Uri \cup {Empty, Typed, Mixed}) = {}
  /\ View # {} /\ 0 \notin Buffer

VARIABLES
  browser,  \* the static structure `browser`
  views,    \* OrangeView and the page WebKit keeps for it
  window,   \* the pixels: page content, tab strip and toolbar
  loop,     \* the main loop
  sent      \* the key event the last step passed to a page

vars == <<browser, views, window, loop, sent>>

NoBuffer == 0
NoFrame == 0
White == <<>>
NoKey == [view |-> 0, keycode |-> 0, keyval |-> 0, modifiers |-> {}]

\* orange_view_init, and a page before its first load.
NewView == [active |-> FALSE, focus |-> FALSE, frame |-> NoFrame, shown |-> NoBuffer,
            lent |-> {}, idle |-> 0, uri |-> Empty, title |-> Empty, history |-> {},
            progress |-> FALSE]

\* The state the handlers below work on.
Now == [browser |-> browser, views |-> views, window |-> window, loop |-> loop, sent |-> NoKey]
Become(g) ==
  /\ browser' = g.browser /\ views' = g.views /\ window' = g.window
  /\ loop' = g.loop /\ sent' = g.sent

Count(g) == Len(g.browser.tabs)
ActiveView(g) == g.browser.tabs[g.browser.active + 1]
Opened(g) == Range(g.browser.tabs)

\* A view that does not exist yet: not in a tab, and not kept by view_release.
Fresh(g) == {v \in View \ Opened(g) : g.views[v].idle = 0}
NextView(g) == CHOOSE v \in Fresh(g) : TRUE

-----------------------------------------------------------------------------
(* Drawing: the strip and the toolbar show the state they were drawn from, *)
(* WebKit's titles, addresses and history as it gave them at that moment.  *)

\* Empty is drawn as "New Tab".
tab_title(g, v) == IF g.views[v].title # Empty THEN g.views[v].title ELSE g.views[v].uri

Strip(g) == [labels |-> [i \in 1 .. Count(g) |-> tab_title(g, g.browser.tabs[i])],
             active |-> g.browser.active]
Bar(g) == [address |-> g.browser.address, editing |-> g.browser.editing,
           history |-> g.views[ActiveView(g)].history,
           progress |-> g.views[ActiveView(g)].progress]
Content(g, v) == IF g.views[v].frame = NoFrame THEN White ELSE <<v, g.views[v].frame>>

draw_tabs(g) == [g EXCEPT !.window.strip = Strip(g)]
draw_toolbar(g) == [g EXCEPT !.window.bar = Bar(g)]
view_show_frame(g, v) == [g EXCEPT !.window.content = Content(g, v)]

\* Where the parts of the tab strip and the toolbar are.
tab_width(g) ==
  LET share == (Width - 8 - 44) \div (IF Count(g) > 1 THEN Count(g) ELSE 1)
  IN  IF share < 220 THEN share ELSE 220
tab_x(g, index) == 8 + index * tab_width(g)
plus_x(g) == tab_x(g, Count(g)) + 6
button_x(button) == 10 + button * 38
field_x == button_x(3) + 6

-----------------------------------------------------------------------------
(* Views and tabs.                                                         *)

orange_view_set_active(g, v, on) ==
  LET h == [g EXCEPT !.views[v].active = on]
  IN  IF on THEN view_show_frame(h, v) ELSE h

wpe_view_focus_in(g, v) == [g EXCEPT !.views[v].focus = TRUE]
wpe_view_focus_out(g, v) == [g EXCEPT !.views[v].focus = FALSE]

show_uri(g) == [g EXCEPT !.browser.address = g.views[ActiveView(g)].uri]

\* Seeded fault: the tab that is left goes on drawing and keeps the focus.
HideNobody(g, v) == g

\* activate's loop over the other tabs.
HideOthers(g, v) ==
  [g EXCEPT !.views =
    [w \in View |-> IF w \in Opened(g) \ {v}
                    THEN [g.views[w] EXCEPT !.active = FALSE, !.focus = FALSE]
                    ELSE g.views[w]]]

activate(g, index) ==
  LET v == g.browser.tabs[index + 1]
      h == [HideOthers(g, v) EXCEPT !.browser.active = index, !.browser.editing = FALSE]
      shown == wpe_view_focus_in(orange_view_set_active(h, v, TRUE), v)
  IN  draw_toolbar(draw_tabs(show_uri(shown)))

address_to_url(text) ==
  IF text \in Uri THEN text ELSE TypedUrl

on_uri(g, v) ==
  IF v # ActiveView(g) THEN g
  ELSE draw_toolbar(IF g.browser.editing THEN g ELSE show_uri(g))

\* WebKit reports a new URI at once (notify::uri).
webkit_web_view_load_uri(g, v, uri) ==
  IF g.views[v].uri = uri THEN g ELSE on_uri([g EXCEPT !.views[v].uri = uri], v)

add_tab(g, v) ==
  [g EXCEPT !.browser.tabs = Append(@, v), !.views[v] = NewView]

\* A tab that WebKit loads later (a page opened a window).
on_create(g) ==
  IF Count(g) = MAX_TABS THEN g
  ELSE activate(add_tab(g, NextView(g)), Count(g))

open_tab(g, uri) ==
  IF Count(g) = MAX_TABS THEN g
  ELSE webkit_web_view_load_uri(on_create(g), NextView(g), address_to_url(uri))

\* The last reference to a view went (view_dispose).
view_dispose(g, v) == [g EXCEPT !.views[v] = NewView]

\* Seeded fault: the position is kept although a tab before it went.
KeepPosition(active, index, count) == IF active >= count THEN active - 1 ELSE active

\* The tab to show once the one at `index` has left `count` tabs.
AfterClose(active, index, count) ==
  IF (index < active \/ active >= count) /\ active > 0 THEN active - 1 ELSE active

close_tab(g, index) ==
  LET v == g.browser.tabs[index + 1]
      h == orange_view_set_active([g EXCEPT !.browser.tabs = RemoveAt(@, index + 1)], v, FALSE)
      gone == IF g.views[v].idle = 0 THEN view_dispose(h, v) ELSE h
      next == AfterClose(g.browser.active, index, Count(h))
  IN  IF Count(h) = 0 THEN [gone EXCEPT !.loop = "quit"]
      ELSE activate(gone, IF next < Count(h) THEN next ELSE Count(h) - 1)

navigate(g) ==
  LET h == webkit_web_view_load_uri(g, ActiveView(g), address_to_url(g.browser.address))
      left == wpe_view_focus_in([h EXCEPT !.browser.editing = FALSE], ActiveView(h))
  IN  draw_toolbar(show_uri(left))

\* Seeded fault: the page keeps the keyboard focus.
EditWithFocusInPage(g, clear) ==
  draw_toolbar([g EXCEPT !.browser.editing = TRUE, !.browser.replace = ~clear,
                         !.browser.address = IF clear THEN Empty ELSE @])

edit_address(g, clear) ==
  LET h == [g EXCEPT !.browser.editing = TRUE, !.browser.replace = ~clear,
                     !.browser.address = IF clear THEN Empty ELSE @]
  IN  draw_toolbar(wpe_view_focus_out(h, ActiveView(g)))

-----------------------------------------------------------------------------
(* Keyboard.  `rest` is what a BackSpace leaves: some text or none.        *)

Return == {\hff0d, \hff8d}
Escape == \hff1b
BackSpace == \hff08
ISO_Left_Tab == \hfe20
TabKeys == {\hff09, ISO_Left_Tab}

\* The text of the address field after a key.
Edited(g, keyval, rest) ==
  IF keyval = BackSpace
  THEN IF g.browser.address = Empty THEN Empty
       ELSE IF rest = Empty THEN Empty
       ELSE IF g.browser.address = Typed THEN Typed
       ELSE Mixed
  ELSE IF keyval \in 32 .. 126 /\ g.browser.modifiers \intersect {"ctrl", "alt"} = {}
  THEN IF g.browser.replace \/ g.browser.address \in {Empty, Typed} THEN Typed ELSE Mixed
  ELSE g.browser.address

\* Back to the page, address restored.
LeaveField(g) ==
  LET h == show_uri([g EXCEPT !.browser.editing = FALSE, !.browser.replace = FALSE])
  IN  draw_toolbar(wpe_view_focus_in(h, ActiveView(h)))

address_key(g, keyval, rest) ==
  IF keyval \in Return THEN navigate(g)
  ELSE IF keyval = Escape THEN LeaveField(g)
  ELSE draw_toolbar([g EXCEPT !.browser.address = Edited(g, keyval, rest),
                              !.browser.replace = FALSE])

is_shortcut(g, keyval) ==
  /\ "ctrl" \in g.browser.modifiers
  /\ keyval \in TabKeys \cup {76, 84, 87, 108, 116, 119}

shortcut(g, keyval) ==
  LET back == "shift" \in g.browser.modifiers \/ keyval = ISO_Left_Tab
      step == IF back THEN Count(g) - 1 ELSE 1
  IN  CASE keyval \in {76, 108} -> edit_address(g, TRUE)
        [] keyval \in {84, 116} ->
             IF Count(g) = MAX_TABS THEN g ELSE edit_address(open_tab(g, START_PAGE), TRUE)
        [] keyval \in {87, 119} -> close_tab(g, g.browser.active)
        [] keyval \in TabKeys ->
             IF Count(g) = 1 THEN g ELSE activate(g, (g.browser.active + step) % Count(g))

\* The modifiers after a key: Caps Lock turns over when pressed.
modifiers(g, code, extended, pressed) ==
  LET m == orange_key_modifier(code, extended)
      held == g.browser.modifiers
  IN  IF m # {} THEN IF pressed THEN held \cup m ELSE held \ m
      ELSE IF code = \h3A /\ ~extended /\ pressed
      THEN IF "caps" \in held THEN held \ {"caps"} ELSE held \cup {"caps"}
      ELSE held

handle_key(g, code, extended, pressed, rest) ==
  LET h == [g EXCEPT !.browser.modifiers = modifiers(g, code, extended, pressed)]
      key == orange_key_translate(code, extended, h.browser.modifiers)
      typed == pressed /\ orange_key_modifier(code, extended) = {}
  IN  IF key = Untranslated THEN h
      ELSE IF typed /\ is_shortcut(h, key.keyval) THEN shortcut(h, key.keyval)
      ELSE IF h.browser.editing THEN IF typed THEN address_key(h, key.keyval, rest) ELSE h
      ELSE [h EXCEPT !.sent = [view |-> ActiveView(h), keycode |-> key.keycode,
                               keyval |-> key.keyval, modifiers |-> h.browser.modifiers]]

-----------------------------------------------------------------------------
(* Mouse.  Moves, buttons and wheel steps over the page go to its view and *)
(* change nothing here; a press there ends editing.                        *)

tabbar_click(g, x) ==
  LET w == tab_width(g)
      hit == {i \in 0 .. Count(g) - 1 : x >= tab_x(g, i) /\ x < tab_x(g, i) + w - 4}
      i == CHOOSE j \in hit : TRUE
  IN  IF hit # {}
      THEN IF x >= tab_x(g, i) + w - 4 - 26 THEN close_tab(g, i)
           ELSE IF i # g.browser.active THEN activate(g, i)
           ELSE g
      ELSE IF Count(g) < MAX_TABS /\ x >= plus_x(g) /\ x < plus_x(g) + 28
      THEN edit_address(open_tab(g, START_PAGE), TRUE)
      ELSE g

\* Back, forward and reload are WebKit's to carry out.
toolbar_click(g, x) ==
  IF \E b \in 0 .. 2 : x \in button_x(b) .. button_x(b) + 31 THEN g
  ELSE IF x >= field_x THEN edit_address(g, FALSE)
  ELSE g

content_click(g) ==
  LET left == IF g.browser.editing
              THEN draw_toolbar(show_uri([g EXCEPT !.browser.editing = FALSE]))
              ELSE g
  IN  wpe_view_focus_in(left, ActiveView(left))

\* area: "strip", "toolbar" or "page"; held: the buttons down now.
handle_mouse(g, area, x, held) ==
  LET pressed == held \ g.browser.buttons
      h == [g EXCEPT !.browser.buttons = held]
  IN  CASE area = "strip" -> IF "left" \in pressed THEN tabbar_click(h, x) ELSE h
        [] area = "toolbar" -> IF "left" \in pressed THEN toolbar_click(h, x) ELSE h
        [] area = "page" -> IF pressed # {} THEN content_click(h) ELSE h

-----------------------------------------------------------------------------
(* The main loop.                                                          *)

NoProgram ==
  [browser |-> [tabs |-> <<>>, active |-> 0, address |-> Empty, editing |-> FALSE,
                replace |-> FALSE, modifiers |-> {}, buttons |-> {}],
   views |-> [v \in View |-> NewView],
   window |-> [content |-> White, strip |-> <<>>, bar |-> <<>>],
   loop |-> "run", sent |-> NoKey]

\* main: the first tab opens the program's argument, or the start page, and the
\* address field shows it as it was given.
Started(first) == draw_toolbar([open_tab(NoProgram, first) EXCEPT !.browser.address = first])

Init ==
  \E first \in Uri \cup {Empty, Typed} :
    LET g == Started(first)
    IN  /\ browser = g.browser /\ views = g.views /\ window = g.window
        /\ loop = g.loop /\ sent = g.sent

\* g_main_loop_quit only marks the loop: the sources that are ready in the same
\* iteration are still dispatched.
Dispatching == loop \in {"run", "quit"} /\ browser.tabs # <<>>
Room == Count(Now) = MAX_TABS \/ Fresh(Now) # {}

Key(code, extended, pressed) ==
  /\ Dispatching /\ Room
  /\ \E rest \in {Empty, Mixed} : Become(handle_key(Now, code, extended, pressed, rest))

Mouse(area, x, held) ==
  /\ Dispatching /\ Room
  /\ Become(handle_mouse(Now, area, x, held))

\* The window's close button (event kind 3).
CloseWindow ==
  /\ Dispatching
  /\ Become([Now EXCEPT !.loop = "quit"])

\* An event dispatched after the last tab is gone reads the freed tab behind
\* ACTIVE: from there on the program is undefined.
LateEvent ==
  /\ loop = "quit" /\ browser.tabs = <<>>
  /\ Become([NoProgram EXCEPT !.loop = "undefined"])

\* main returns.
LoopEnds ==
  /\ loop = "quit"
  /\ Become([NoProgram EXCEPT !.loop = "ended"])

-----------------------------------------------------------------------------
(* WebKit: what a page may do while its tab is open.                       *)

Page(v) == Dispatching /\ v \in Opened(Now)

PageUri(v, uri) ==
  /\ Page(v) /\ views[v].uri # uri
  /\ Become(on_uri([Now EXCEPT !.views[v].uri = uri], v))

\* Loading, or not: progress is drawn between 0 and 1 only.
on_progress(v) ==
  LET g == [Now EXCEPT !.views[v].progress = ~@]
  IN  /\ Page(v)
      /\ Become(IF v = ActiveView(g) THEN draw_toolbar(g) ELSE g)

\* WebKit's title is another, or none.
Titled(v, title) == [Now EXCEPT !.views[v].title = title]

\* Seeded fault: the strip is drawn for the tab in view only.
TitleOfActiveTab(v, title) ==
  /\ Page(v) /\ views[v].title # title
  /\ Become(IF v = ActiveView(Now) THEN draw_tabs(Titled(v, title)) ELSE Titled(v, title))

on_title(v, title) ==
  /\ Page(v) /\ views[v].title # title
  /\ Become(draw_tabs(Titled(v, title)))

\* The way back or forward opens or closes: nothing tells the browser.
PageHistory(v, history) ==
  /\ Page(v) /\ views[v].history # history
  /\ Become([Now EXCEPT !.views[v].history = history])

\* The end of a load.
on_load(v) ==
  /\ Page(v)
  /\ Become(IF v = ActiveView(Now) THEN draw_toolbar(draw_tabs(Now)) ELSE draw_tabs(Now))

PageCreates(v) == Page(v) /\ Room /\ Become(on_create(Now))

on_close(v) ==
  /\ Page(v)
  /\ \E i \in 0 .. Count(Now) - 1 :
       browser.tabs[i + 1] = v /\ Become(close_tab(Now, i))

\* A buffer goes back to WebKit (buffer_rendered, buffer_released).
GiveBack(g, v) ==
  [g EXCEPT !.views[v].lent = @ \ {g.views[v].shown}, !.views[v].shown = NoBuffer]

\* Seeded fault: a frame that replaces another forgets the older buffer.
ForgetPrevious(g, v) == g

\* The frame before goes back when the next one arrives first.
ReleasePrevious(g, v) == IF g.views[v].shown = NoBuffer THEN g ELSE GiveBack(g, v)

\* Only the active view is drawn.
DrawsActive(g, v) == IF g.views[v].active THEN view_show_frame(g, v) ELSE g

view_render_buffer(v, b) ==
  LET framed == DrawsActive([Now EXCEPT !.views[v].frame = 1 + (@ % 2)], v)
      given == ReleasePrevious([framed EXCEPT !.views[v].lent = @ \cup {b}], v)
  IN  /\ Page(v) /\ b \notin views[v].lent /\ views[v].idle < MaxIdle
      /\ Become([given EXCEPT !.views[v].shown = b, !.views[v].idle = @ + 1])

\* The queued idle call; it holds a reference to the view.
view_release(v) ==
  LET g == IF views[v].shown = NoBuffer THEN Now ELSE GiveBack(Now, v)
      h == [g EXCEPT !.views[v].idle = @ - 1]
  IN  /\ loop = "run" /\ views[v].idle > 0
      /\ Become(IF v \notin Opened(h) /\ h.views[v].idle = 0 THEN view_dispose(h, v) ELSE h)

LoopStep == CloseWindow \/ LateEvent \/ LoopEnds
PageStep(v) ==
  \/ \E uri \in Uri : PageUri(v, uri)
  \/ \E title \in Title \cup {Empty} : on_title(v, title)
  \/ \E history \in SUBSET {"back", "forward"} : PageHistory(v, history)
  \/ on_progress(v) \/ on_load(v) \/ PageCreates(v) \/ on_close(v)
FrameStep(v) == view_release(v) \/ \E b \in Buffer : view_render_buffer(v, b)

\* dispatch: whatever event Peel sent is handled.  The wheel changes nothing here.
Button == {"left", "middle", "right"}
dispatch ==
  \/ \E code \in Nat, extended, pressed \in BOOLEAN : Key(code, extended, pressed)
  \/ \E area \in {"strip", "toolbar", "page"}, x \in Int, held \in SUBSET Button :
       Mouse(area, x, held)

Next == dispatch \/ LoopStep \/ \E v \in View : PageStep(v) \/ FrameStep(v)

Spec == Init /\ [][Next]_vars

-----------------------------------------------------------------------------
(* Properties.                                                             *)

\* The window shows the active tab: its view is the only active one, the page
\* area holds that view's last frame (white before the first), and no order of
\* tab changes, closes, background frames and late releases leaves another
\* tab's pixels there (activate, close_tab, view_render_buffer).
ActiveTabShown ==
  Dispatching =>
    /\ browser.active < Count(Now)
    /\ {v \in View : views[v].active} = {ActiveView(Now)}
    /\ window.content = Content(Now, ActiveView(Now))

\* Keys go to one place: the active page has the focus unless the address field
\* is being edited, and no other page ever has it.
KeysGoToOnePlace ==
  Dispatching =>
    \A v \in Opened(Now) : views[v].focus <=> (v = ActiveView(Now) /\ ~browser.editing)

\* A tab with a title bears that title; the label of one without is an address it
\* had, for on_uri leaves the strip as it is, or nothing.
Labelled(g) ==
  /\ g.window.strip.active = g.browser.active
  /\ DOMAIN g.window.strip.labels = 1 .. Count(g)
  /\ \A i \in 1 .. Count(g) :
       LET title == g.views[g.browser.tabs[i]].title
       IN  IF title # Empty THEN g.window.strip.labels[i] = title
           ELSE g.window.strip.labels[i] \in Uri \cup {Empty}

\* Back and forward are as they were at the last drawing, which nothing redoes.
ToolbarTrue(g) ==
  /\ g.window.bar.address = g.browser.address
  /\ g.window.bar.editing = g.browser.editing
  /\ g.window.bar.progress = g.views[ActiveView(g)].progress

\* The address of the page in view, or, as long as nothing has changed since the
\* start, the program's argument, of which that address was made.
AddressTrue(g) ==
  LET uri == g.views[ActiveView(g)].uri
  IN  \/ g.browser.address = uri
      \/ Count(g) = 1 /\ uri = address_to_url(g.browser.address)

\* What is on the screen is true, whichever tabs' pages change in the background
\* and in whatever order tabs come and go (draw_tabs, draw_toolbar and their
\* callers): no tab bears another's title or one it has lost, the toolbar shows
\* the field and the loading of the page in view, and an address that is not
\* being edited is that page's.
WindowTruthful ==
  Dispatching =>
    /\ Labelled(Now) /\ ToolbarTrue(Now)
    /\ ~browser.editing => AddressTrue(Now)

\* A tab the user looks at stays in view when another one closes, by its cross,
\* by the page itself or while its buffers are still on their way.
CloseKeepsTab ==
  [][ (/\ browser.tabs # <<>> /\ Len(browser'.tabs) < Len(browser.tabs)
       /\ ActiveView(Now) \in Range(browser'.tabs))
        => browser'.tabs[browser'.active + 1] = ActiveView(Now) ]_vars

\* Buffers return to WebKit: the only one a view holds is the frame it took
\* last, a release is queued for it that keeps the view alive, and so a view is
\* never disposed of with a buffer WebKit is waiting for.
BuffersReturn ==
  \A v \in View :
    /\ views[v].lent = {views[v].shown} \ {NoBuffer}
    /\ views[v].shown # NoBuffer => views[v].idle > 0

\* The keymap agrees with the events: WebKit, given a key's code and modifiers,
\* finds the same keysym, and among the ways to type it, at the level it was.
KeymapAgrees ==
  sent # NoKey =>
    LET answer == keymap_translate(sent.keycode, sent.modifiers)
    IN  /\ answer.keyval = sent.keyval
        /\ <<sent.keycode, answer.level>> \in keymap_entries_for_keyval(sent.keyval)

=============================================================================
