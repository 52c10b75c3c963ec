---------------------------- MODULE BrowserProofs ----------------------------
(***************************************************************************)
(* Orange Browser for any number of views, tabs and buffers and any input: *)
(* the window shows the active tab, keys go to one place, what is drawn is *)
(* true, buffers return to WebKit, and closing another tab leaves the one  *)
(* in view.  The C functions are operators from a state to a state, so the *)
(* proof is a lemma about what each of them leaves behind, and activate,   *)
(* which repairs the state that opening and closing a tab disturb.         *)
(***************************************************************************)
EXTENDS Browser, TLAPS

Address == Uri \cup {Empty, Typed, Mixed}

BrowserRec ==
  [tabs : Seq(View), active : Nat, address : Address, editing : BOOLEAN,
   replace : BOOLEAN, modifiers : SUBSET Modifier, buttons : SUBSET Button]
ViewRec ==
  [active : BOOLEAN, focus : BOOLEAN, frame : 0 .. 2, shown : Buffer \cup {NoBuffer},
   lent : SUBSET Buffer, idle : Nat, uri : Uri \cup {Empty}, title : Title \cup {Empty},
   history : SUBSET {"back", "forward"}, progress : BOOLEAN]
Label == Uri \cup Title \cup {Empty}
WindowRec ==
  [content : {White} \cup (View \X (0 .. 2)),
   strip : {<<>>} \cup [labels : Seq(Label), active : Nat],
   bar : {<<>>} \cup [address : Address, editing : BOOLEAN,
                      history : SUBSET {"back", "forward"}, progress : BOOLEAN]]

\* The states the handlers work on, with s the key event passed to a page.
State(s) ==
  [browser : BrowserRec, views : [View -> ViewRec], window : WindowRec,
   loop : {"run", "quit", "undefined", "ended"}, sent : {s}]

\* Each view is in one tab, and a view that is in none is not active.
Tabs(g) ==
  /\ \A i, j \in 1 .. Count(g) : g.browser.tabs[i] = g.browser.tabs[j] => i = j
  /\ \A v \in View \ Opened(g) : ~g.views[v].active

InRange(g) == Count(g) > 0 /\ g.browser.active < Count(g)

Shown(g) ==
  /\ \A v \in View : g.views[v].active <=> v = ActiveView(g)
  /\ g.window.content = Content(g, ActiveView(g))

Focused(g) ==
  \A v \in Opened(g) : g.views[v].focus <=> v = ActiveView(g) /\ ~g.browser.editing

Truthful(g) ==
  /\ Labelled(g) /\ ToolbarTrue(g)
  /\ ~g.browser.editing => AddressTrue(g)

\* What holds of a state with tabs whenever the main loop is between events.
Good(g) == Tabs(g) /\ InRange(g) /\ Shown(g) /\ Focused(g) /\ Truthful(g)

Returned(r) ==
  /\ r.lent = {r.shown} \ {NoBuffer}
  /\ r.shown # NoBuffer => r.idle > 0
Buffers(g) == \A v \in View : Returned(g.views[v])

\* The step from g to h takes no buffer and returns none.
SameBuffers(g, h) ==
  \A v \in View : /\ h.views[v].lent = g.views[v].lent
                  /\ h.views[v].shown = g.views[v].shown
                  /\ h.views[v].idle = g.views[v].idle

\* The step leaves the pages and their frames alone.
SamePages(g, h) ==
  \A v \in View : /\ h.views[v].uri = g.views[v].uri
                  /\ h.views[v].frame = g.views[v].frame
      /\ h.views[v].title = g.views[v].title
                  /\ h.views[v].history = g.views[v].history
                  /\ h.views[v].progress = g.views[v].progress

SameTabs(g, h) == h.browser.tabs = g.browser.tabs /\ h.browser.active = g.browser.active

IInv ==
  /\ Now \in State(NoKey)
  /\ Buffers(Now)
  /\ Dispatching => Good(Now)

-----------------------------------------------------------------------------
(* What the parts of a state are.                                          *)

LEMMA Parts ==
  ASSUME NEW s, NEW g \in State(s)
  PROVE  /\ g.browser \in BrowserRec /\ g.views \in [View -> ViewRec]
         /\ g.window \in WindowRec /\ g.sent = s
BY Zenon DEF State

LEMMA ViewOf ==
  ASSUME NEW s, NEW g \in State(s), NEW v \in View
  PROVE  g.views[v] \in ViewRec
<1>1. g.views \in [View -> ViewRec]
  BY Parts, Zenon
<1> QED BY <1>1, Zenon

LEMMA BrowserParts ==
  ASSUME NEW b \in BrowserRec
  PROVE  /\ b.tabs \in Seq(View) /\ b.active \in Nat /\ b.address \in Address
         /\ b.editing \in BOOLEAN /\ b.replace \in BOOLEAN
         /\ b.modifiers \in SUBSET Modifier /\ b.buttons \in SUBSET Button
BY Zenon DEF BrowserRec

LEMMA ViewParts ==
  ASSUME NEW r \in ViewRec
  PROVE  /\ r.active \in BOOLEAN /\ r.focus \in BOOLEAN /\ r.frame \in 0 .. 2
         /\ r.shown \in Buffer \cup {NoBuffer} /\ r.lent \in SUBSET Buffer
         /\ r.idle \in Nat /\ r.uri \in Uri \cup {Empty} /\ r.title \in Title \cup {Empty}
         /\ r.history \in SUBSET {"back", "forward"} /\ r.progress \in BOOLEAN
BY Zenon DEF ViewRec

LEMMA TabsAre ==
  ASSUME NEW s, NEW g \in State(s)
  PROVE  /\ Count(g) \in Nat /\ g.browser.tabs \in Seq(View)
         /\ \A i \in 1 .. Count(g) : g.browser.tabs[i] \in View
         /\ Opened(g) = {g.browser.tabs[i] : i \in 1 .. Count(g)}
         /\ Opened(g) \subseteq View
<1>1. g.browser.tabs \in Seq(View)
  BY Parts, BrowserParts, Zenon
<1>2. PICK q \in Seq(View) : q = g.browser.tabs
  BY <1>1
<1>3. Len(q) \in Nat /\ \A i \in 1 .. Len(q) : q[i] \in View
  OBVIOUS
<1>4. Range(q) = {q[i] : i \in 1 .. Len(q)}
  BY DEF Range
<1> QED BY <1>2, <1>3, <1>4 DEF Count, Opened

LEMMA ActiveIs ==
  ASSUME NEW s, NEW g \in State(s), InRange(g)
  PROVE  /\ ActiveView(g) \in View /\ ActiveView(g) \in Opened(g)
         /\ g.views[ActiveView(g)] \in ViewRec
<1>1. g.browser.active \in Nat
  BY Parts, BrowserParts, Zenon
<1>2. g.browser.active + 1 \in 1 .. Count(g)
  BY <1>1, TabsAre DEF InRange
<1>3. ActiveView(g) \in View /\ ActiveView(g) \in Opened(g)
  BY <1>2, TabsAre, Zenon DEF ActiveView
<1> QED BY <1>3, Parts, Zenon


\* Steps that leave buffers and pages alone, one after the other.
LEMMA SameChain ==
  ASSUME NEW a, NEW b, NEW c
  PROVE  /\ SameBuffers(a, b) /\ SameBuffers(b, c) => SameBuffers(a, c)
         /\ SamePages(a, b) /\ SamePages(b, c) => SamePages(a, c)
         /\ a.views = b.views => SameBuffers(a, b) /\ SamePages(a, b)
BY Zenon DEF SameBuffers, SamePages

-----------------------------------------------------------------------------
(* Drawing, and the flags of a view.                                       *)

LEMMA TitleIs ==
  ASSUME NEW s, NEW g \in State(s), NEW v \in View
  PROVE  /\ tab_title(g, v) \in Title \cup Uri \cup {Empty}
         /\ g.views[v].title # Empty => tab_title(g, v) = g.views[v].title
         /\ g.views[v].title = Empty => tab_title(g, v) \in Uri \cup {Empty}
BY ViewOf, ViewParts, Zenon DEF tab_title

\* A strip that has just been drawn.
LEMMA StripLabelled ==
  ASSUME NEW s, NEW g \in State(s), g.window.strip = Strip(g)
  PROVE  Labelled(g)
<1>1. PICK q : q = [i \in 1 .. Count(g) |-> tab_title(g, g.browser.tabs[i])]
  OBVIOUS
<1>2. g.window.strip.labels = q /\ g.window.strip.active = g.browser.active
  BY <1>1 DEF Strip
<1>3. DOMAIN q = 1 .. Count(g)
      /\ \A i \in 1 .. Count(g) : q[i] = tab_title(g, g.browser.tabs[i])
  BY <1>1, Zenon
<1>4. ASSUME NEW i \in 1 .. Count(g)
      PROVE  IF g.views[g.browser.tabs[i]].title # Empty
             THEN q[i] = g.views[g.browser.tabs[i]].title
             ELSE q[i] \in Uri \cup {Empty}
  <2>1. PICK v \in View : v = g.browser.tabs[i]
    BY TabsAre, Zenon
  <2> QED BY <1>3, <2>1, TitleIs, Zenon
<1> QED BY <1>2, <1>3, <1>4, Zenon DEF Labelled

\* A strip that was left as it is, over tabs whose titles are the same.
LEMMA LabelledAgain ==
  ASSUME NEW s, NEW g \in State(s), NEW h, Labelled(g), h.window.strip = g.window.strip,
         SameTabs(g, h), \A w \in Opened(g) : h.views[w].title = g.views[w].title
  PROVE  Labelled(h)
<1>1. Count(h) = Count(g) /\ h.browser.tabs = g.browser.tabs
  BY Zenon DEF SameTabs, Count
<1>2. ASSUME NEW i \in 1 .. Count(g)
      PROVE  h.views[h.browser.tabs[i]].title = g.views[g.browser.tabs[i]].title
  <2>1. g.browser.tabs[i] \in Opened(g)
    BY TabsAre
  <2> QED BY <1>1, <2>1, Zenon
<1> QED BY <1>1, <1>2, Zenon DEF Labelled, SameTabs

\* A toolbar that has just been drawn, and one that was left as it is.
LEMMA BarTrue ==
  ASSUME NEW g, g.window.bar = Bar(g)
  PROVE  ToolbarTrue(g)
BY DEF Bar, ToolbarTrue

LEMMA ToolbarAgain ==
  ASSUME NEW g, NEW h, ToolbarTrue(g), h.window.bar = g.window.bar,
         h.browser.address = g.browser.address, h.browser.editing = g.browser.editing,
         h.views[ActiveView(h)].progress = g.views[ActiveView(g)].progress
  PROVE  ToolbarTrue(h)
BY Zenon DEF ToolbarTrue

\* The address of the page in view, and an address that was left as it is.
LEMMA UriTrue ==
  ASSUME NEW g, g.browser.address = g.views[ActiveView(g)].uri
  PROVE  AddressTrue(g)
BY Zenon DEF AddressTrue

LEMMA AddressAgain ==
  ASSUME NEW g, NEW h, AddressTrue(g), h.browser.tabs = g.browser.tabs,
         h.browser.address = g.browser.address,
         h.views[ActiveView(h)].uri = g.views[ActiveView(g)].uri
  PROVE  AddressTrue(h)
BY Zenon DEF AddressTrue, Count

LEMMA DrawTabs ==
  ASSUME NEW s, NEW g \in State(s), NEW h, h = draw_tabs(g)
  PROVE  /\ h \in State(s)
         /\ h.browser = g.browser /\ h.views = g.views /\ h.loop = g.loop
         /\ h.window.strip = Strip(g)
         /\ h.window.content = g.window.content /\ h.window.bar = g.window.bar
<1>1. Strip(g) \in [labels : Seq(Label), active : Nat]
  <2>1. PICK n \in Nat : n = Count(g)
    BY TabsAre
  <2>2. \A i \in 1 .. n : tab_title(g, g.browser.tabs[i]) \in Label
    BY <2>1, TitleIs, TabsAre, Zenon DEF Label
  <2>3. PICK q : q = [i \in 1 .. n |-> tab_title(g, g.browser.tabs[i])]
    OBVIOUS
  <2>4. q \in [1 .. n -> Label]
    BY <2>2, <2>3, Zenon
  <2>5. q \in Seq(Label)
    BY <2>4
  <2> QED BY <2>1, <2>3, <2>5, Parts, BrowserParts, Zenon DEF Strip
<1>2. h \in State(s)
  BY <1>1, Zenon DEF draw_tabs, State, WindowRec
<1> QED BY <1>2, Zenon DEF draw_tabs, State, WindowRec

LEMMA DrawToolbar ==
  ASSUME NEW s, NEW g \in State(s), InRange(g), NEW h, h = draw_toolbar(g)
  PROVE  /\ h \in State(s)
         /\ h.browser = g.browser /\ h.views = g.views /\ h.loop = g.loop
         /\ h.window.strip = g.window.strip
         /\ h.window.content = g.window.content /\ h.window.bar = Bar(g)
<1>1. Bar(g) \in [address : Address, editing : BOOLEAN,
                    history : SUBSET {"back", "forward"}, progress : BOOLEAN]
  BY ActiveIs, Parts, BrowserParts, ViewParts, Zenon DEF Bar
<1>2. h \in State(s)
  BY <1>1, Zenon DEF draw_toolbar, State, WindowRec
<1> QED BY <1>2, Zenon DEF draw_toolbar, State, WindowRec

LEMMA ShowFrame ==
  ASSUME NEW s, NEW g \in State(s), NEW v \in View, NEW h, h = view_show_frame(g, v)
  PROVE  /\ h \in State(s)
         /\ h.browser = g.browser /\ h.views = g.views /\ h.loop = g.loop
         /\ h.window.strip = g.window.strip
         /\ h.window.content = Content(g, v) /\ h.window.bar = g.window.bar
<1>0. g.views[v].frame \in 0 .. 2
  BY ViewOf, ViewParts, Zenon
<1>1. Content(g, v) \in {White} \cup (View \X (0 .. 2))
  BY <1>0, Zenon DEF Content
<1>2. h \in State(s)
  BY <1>1, Zenon DEF view_show_frame, State, WindowRec
<1> QED BY <1>2, Zenon DEF view_show_frame, State, WindowRec

\* What is left of a record that was hidden.
LEMMA HiddenFields ==
  ASSUME NEW r \in ViewRec, NEW q, q = [r EXCEPT !.active = FALSE, !.focus = FALSE]
  PROVE  /\ q \in ViewRec /\ q.active = FALSE /\ q.focus = FALSE
         /\ q.frame = r.frame /\ q.uri = r.uri /\ q.progress = r.progress
         /\ q.title = r.title /\ q.history = r.history
         /\ q.lent = r.lent /\ q.shown = r.shown /\ q.idle = r.idle
BY Zenon DEF ViewRec

\* A step that changes the flag of one view, active or focus.
FlagStep(s, g, h) ==
  /\ h \in State(s)
  /\ h.browser = g.browser /\ h.window = g.window /\ h.loop = g.loop
  /\ SameBuffers(g, h) /\ SamePages(g, h)

LEMMA FocusIn ==
  ASSUME NEW s, NEW g \in State(s), NEW v \in View, NEW h, h = wpe_view_focus_in(g, v)
  PROVE  /\ FlagStep(s, g, h)
         /\ \A w \in View : h.views[w].active <=> g.views[w].active
         /\ h.views[v].focus
         /\ \A w \in View \ {v} : h.views[w].focus <=> g.views[w].focus
<1>1. g.views[v] \in ViewRec
  BY ViewOf, Zenon
<1>a. [g.views[v] EXCEPT !.focus = TRUE] \in ViewRec
  BY <1>1, Zenon DEF ViewRec
<1>2. h \in State(s)
  BY <1>a, Zenon DEF wpe_view_focus_in, State
<1>3. /\ h.browser = g.browser /\ h.window = g.window /\ h.loop = g.loop
      /\ \A w \in View \ {v} : h.views[w] = g.views[w]
  BY Zenon DEF wpe_view_focus_in, State
<1>4. h.views[v] = [g.views[v] EXCEPT !.focus = TRUE]
  BY Zenon DEF wpe_view_focus_in, State
<1>5. /\ h.views[v].focus /\ (h.views[v].active <=> g.views[v].active)
      /\ h.views[v].uri = g.views[v].uri /\ h.views[v].frame = g.views[v].frame
      /\ h.views[v].title = g.views[v].title
      /\ h.views[v].progress = g.views[v].progress /\ h.views[v].lent = g.views[v].lent
      /\ h.views[v].shown = g.views[v].shown /\ h.views[v].idle = g.views[v].idle
      /\ h.views[v].history = g.views[v].history
  BY <1>1, <1>4, Zenon DEF ViewRec
<1>6. SameBuffers(g, h) /\ SamePages(g, h)
  BY <1>3, <1>5, Zenon DEF SameBuffers, SamePages
<1> QED BY <1>2, <1>3, <1>5, <1>6 DEF FlagStep

LEMMA FocusOut ==
  ASSUME NEW s, NEW g \in State(s), NEW v \in View, NEW h, h = wpe_view_focus_out(g, v)
  PROVE  /\ FlagStep(s, g, h)
         /\ \A w \in View : h.views[w].active <=> g.views[w].active
         /\ ~h.views[v].focus
         /\ \A w \in View \ {v} : h.views[w].focus <=> g.views[w].focus
<1>1. g.views[v] \in ViewRec
  BY ViewOf, Zenon
<1>a. [g.views[v] EXCEPT !.focus = FALSE] \in ViewRec
  BY <1>1, Zenon DEF ViewRec
<1>2. h \in State(s)
  BY <1>a, Zenon DEF wpe_view_focus_out, State
<1>3. /\ h.browser = g.browser /\ h.window = g.window /\ h.loop = g.loop
      /\ \A w \in View \ {v} : h.views[w] = g.views[w]
  BY Zenon DEF wpe_view_focus_out, State
<1>4. h.views[v] = [g.views[v] EXCEPT !.focus = FALSE]
  BY Zenon DEF wpe_view_focus_out, State
<1>5. /\ ~h.views[v].focus /\ (h.views[v].active <=> g.views[v].active)
      /\ h.views[v].uri = g.views[v].uri /\ h.views[v].frame = g.views[v].frame
      /\ h.views[v].title = g.views[v].title
      /\ h.views[v].progress = g.views[v].progress /\ h.views[v].lent = g.views[v].lent
      /\ h.views[v].shown = g.views[v].shown /\ h.views[v].idle = g.views[v].idle
      /\ h.views[v].history = g.views[v].history
  BY <1>1, <1>4, Zenon DEF ViewRec
<1>6. SameBuffers(g, h) /\ SamePages(g, h)
  BY <1>3, <1>5, Zenon DEF SameBuffers, SamePages
<1> QED BY <1>2, <1>3, <1>5, <1>6 DEF FlagStep

\* The flag orange_view_set_active sets.
Flagged(g, v, on) == [g EXCEPT !.views[v].active = on]

LEMMA Shows ==
  ASSUME NEW s, NEW g \in State(s), NEW v \in View, NEW h, h = Flagged(g, v, TRUE)
  PROVE  /\ FlagStep(s, g, h)
         /\ \A w \in View : h.views[w].focus <=> g.views[w].focus
         /\ h.views[v].active
         /\ \A w \in View \ {v} : h.views[w].active <=> g.views[w].active
<1>1. g.views[v] \in ViewRec
  BY ViewOf, Zenon
<1>a. [g.views[v] EXCEPT !.active = TRUE] \in ViewRec
  BY <1>1, Zenon DEF ViewRec
<1>2. h \in State(s)
  BY <1>a, Zenon DEF Flagged, State
<1>3. /\ h.browser = g.browser /\ h.window = g.window /\ h.loop = g.loop
      /\ \A w \in View \ {v} : h.views[w] = g.views[w]
  BY Zenon DEF Flagged, State
<1>4. h.views[v] = [g.views[v] EXCEPT !.active = TRUE]
  BY Zenon DEF Flagged, State
<1>5. /\ h.views[v].active /\ (h.views[v].focus <=> g.views[v].focus)
      /\ h.views[v].uri = g.views[v].uri /\ h.views[v].frame = g.views[v].frame
      /\ h.views[v].title = g.views[v].title
      /\ h.views[v].progress = g.views[v].progress /\ h.views[v].lent = g.views[v].lent
      /\ h.views[v].shown = g.views[v].shown /\ h.views[v].idle = g.views[v].idle
      /\ h.views[v].history = g.views[v].history
  BY <1>1, <1>4, Zenon DEF ViewRec
<1>6. SameBuffers(g, h) /\ SamePages(g, h)
  BY <1>3, <1>5, Zenon DEF SameBuffers, SamePages
<1> QED BY <1>2, <1>3, <1>5, <1>6 DEF FlagStep

LEMMA Hides ==
  ASSUME NEW s, NEW g \in State(s), NEW v \in View, NEW h, h = Flagged(g, v, FALSE)
  PROVE  /\ FlagStep(s, g, h)
         /\ \A w \in View : h.views[w].focus <=> g.views[w].focus
         /\ ~h.views[v].active
         /\ \A w \in View \ {v} : h.views[w].active <=> g.views[w].active
<1>1. g.views[v] \in ViewRec
  BY ViewOf, Zenon
<1>a. [g.views[v] EXCEPT !.active = FALSE] \in ViewRec
  BY <1>1, Zenon DEF ViewRec
<1>2. h \in State(s)
  BY <1>a, Zenon DEF Flagged, State
<1>3. /\ h.browser = g.browser /\ h.window = g.window /\ h.loop = g.loop
      /\ \A w \in View \ {v} : h.views[w] = g.views[w]
  BY Zenon DEF Flagged, State
<1>4. h.views[v] = [g.views[v] EXCEPT !.active = FALSE]
  BY Zenon DEF Flagged, State
<1>5. /\ ~h.views[v].active /\ (h.views[v].focus <=> g.views[v].focus)
      /\ h.views[v].uri = g.views[v].uri /\ h.views[v].frame = g.views[v].frame
      /\ h.views[v].title = g.views[v].title
      /\ h.views[v].progress = g.views[v].progress /\ h.views[v].lent = g.views[v].lent
      /\ h.views[v].shown = g.views[v].shown /\ h.views[v].idle = g.views[v].idle
      /\ h.views[v].history = g.views[v].history
  BY <1>1, <1>4, Zenon DEF ViewRec
<1>6. SameBuffers(g, h) /\ SamePages(g, h)
  BY <1>3, <1>5, Zenon DEF SameBuffers, SamePages
<1> QED BY <1>2, <1>3, <1>5, <1>6 DEF FlagStep

\* The address field shows the page's address again.
LEMMA ShowUri ==
  ASSUME NEW s, NEW g \in State(s), InRange(g), NEW h, h = show_uri(g)
  PROVE  /\ h \in State(s)
         /\ h.views = g.views /\ h.window = g.window /\ h.loop = g.loop
         /\ SameTabs(g, h) /\ h.browser.editing = g.browser.editing
         /\ h.browser.address = g.views[ActiveView(g)].uri
<1>1. g.views[ActiveView(g)].uri \in Address
  BY ActiveIs, ViewParts, Zenon DEF Address
<1>2. h \in State(s)
  BY <1>1, Zenon DEF show_uri, State, BrowserRec
<1> QED BY <1>2, Zenon DEF show_uri, State, BrowserRec, SameTabs

-----------------------------------------------------------------------------
(* activate: whatever was shown before, the tab at `index` is shown.       *)

LEMMA Hiding ==
  ASSUME NEW s, NEW g \in State(s), NEW v \in View, NEW h, h = HideOthers(g, v)
  PROVE  /\ h \in State(s)
         /\ h.browser = g.browser /\ h.window = g.window /\ h.loop = g.loop
         /\ SameBuffers(g, h) /\ SamePages(g, h)
         /\ \A w \in View :
              /\ h.views[w].active <=> g.views[w].active /\ w \notin Opened(g) \ {v}
              /\ h.views[w].focus <=> g.views[w].focus /\ w \notin Opened(g) \ {v}
<1> DEFINE Q(w) == [g.views[w] EXCEPT !.active = FALSE, !.focus = FALSE]
           F == [w \in View |-> IF w \in Opened(g) \ {v} THEN Q(w) ELSE g.views[w]]
<1>1. \A w \in View :
        /\ g.views[w] \in ViewRec /\ Q(w) \in ViewRec
        /\ Q(w).active = FALSE /\ Q(w).focus = FALSE /\ Q(w).uri = g.views[w].uri
        /\ Q(w).frame = g.views[w].frame /\ Q(w).progress = g.views[w].progress
        /\ Q(w).lent = g.views[w].lent /\ Q(w).shown = g.views[w].shown
        /\ Q(w).idle = g.views[w].idle
        /\ Q(w).title = g.views[w].title /\ Q(w).history = g.views[w].history
  <2> TAKE w \in View
  <2>1. g.views[w] \in ViewRec
    BY ViewOf, Zenon
  <2> QED BY <2>1, HiddenFields, ZenonT(40)
<1>2. F \in [View -> ViewRec]
  BY <1>1, Zenon
<1>3. h = [g EXCEPT !.views = F]
  BY Zenon DEF HideOthers
<1>4. h \in State(s)
  BY <1>2, <1>3, Zenon DEF State
<1>5. h.browser = g.browser /\ h.window = g.window /\ h.loop = g.loop /\ h.views = F
  BY <1>3, Zenon DEF State
<1>6. \A w \in View : h.views[w] = IF w \in Opened(g) \ {v} THEN Q(w) ELSE g.views[w]
  BY <1>5, Zenon
<1> HIDE DEF Q, F
<1>7. SameBuffers(g, h) /\ SamePages(g, h)
  BY SMTT(30), <1>1, <1>6 DEF SameBuffers, SamePages
<1>8. ASSUME NEW w \in View
      PROVE  /\ h.views[w].active <=> g.views[w].active /\ w \notin Opened(g) \ {v}
             /\ h.views[w].focus <=> g.views[w].focus /\ w \notin Opened(g) \ {v}
  BY <1>1, <1>6, Zenon
<1> QED BY <1>4, <1>5, <1>7, <1>8, Zenon

\* The position activate moves to.
Placed(g, i) == [g EXCEPT !.browser.active = i, !.browser.editing = FALSE]

LEMMA SetPlace ==
  ASSUME NEW s, NEW g \in State(s), NEW i \in Nat, NEW h, h = Placed(g, i)
  PROVE  /\ h \in State(s)
         /\ h.views = g.views /\ h.window = g.window /\ h.loop = g.loop
         /\ h.browser.tabs = g.browser.tabs /\ h.browser.active = i
         /\ ~h.browser.editing
<1>1. h \in State(s)
  BY Zenon DEF State, BrowserRec, Placed
<1> QED BY <1>1, Zenon DEF State, BrowserRec, Placed

\* The view comes to the front, with the keyboard focus.
Raised(s, g, h, v) ==
  /\ h \in State(s)
  /\ h.browser = g.browser /\ h.loop = g.loop /\ h.window.content = Content(h, v)
  /\ SameBuffers(g, h) /\ SamePages(g, h)
  /\ h.views[v].active /\ h.views[v].focus
  /\ \A w \in View \ {v} : /\ h.views[w].active <=> g.views[w].active
                           /\ h.views[w].focus <=> g.views[w].focus

LEMMA Raise ==
  ASSUME NEW s, NEW g \in State(s), NEW v \in View,
         NEW h, h = wpe_view_focus_in(orange_view_set_active(g, v, TRUE), v)
  PROVE  Raised(s, g, h, v)
<1>1. PICK a : a = Flagged(g, v, TRUE)
  OBVIOUS
<1>2. FlagStep(s, g, a)
  BY <1>1, Shows, Zenon
<1>3. /\ \A w \in View : a.views[w].focus <=> g.views[w].focus
      /\ a.views[v].active
      /\ \A w \in View \ {v} : a.views[w].active <=> g.views[w].active
  BY <1>1, Shows, Zenon
<1>4. PICK b : b = view_show_frame(a, v)
  OBVIOUS
<1>5. /\ b \in State(s)
      /\ b.browser = a.browser /\ b.views = a.views /\ b.loop = a.loop
      /\ b.window.content = Content(a, v)
  BY <1>2, <1>4, ShowFrame DEF FlagStep
<1>6. h = wpe_view_focus_in(b, v)
  BY <1>1, <1>4, Zenon DEF orange_view_set_active, Flagged
<1>7. FlagStep(s, b, h)
  BY <1>5, <1>6, FocusIn
<1>8. /\ \A w \in View : h.views[w].active <=> b.views[w].active
      /\ h.views[v].focus
      /\ \A w \in View \ {v} : h.views[w].focus <=> b.views[w].focus
  BY ZenonT(40), <1>5, <1>6, FocusIn
<1>9. h.window.content = Content(h, v)
  BY <1>5, <1>7, Zenon DEF Content, FlagStep, SamePages
<1>10. SameBuffers(g, h) /\ SamePages(g, h)
  <2>1. SameBuffers(g, a) /\ SamePages(g, a) /\ SameBuffers(b, h) /\ SamePages(b, h)
    BY <1>2, <1>7, Zenon DEF FlagStep
  <2> QED BY <1>5, <2>1, SameChain
<1>11. h \in State(s) /\ h.browser = g.browser /\ h.loop = g.loop
  BY <1>2, <1>5, <1>7 DEF FlagStep
<1>12. h.views[v].active
  BY <1>3, <1>5, <1>8
<1>13. \A w \in View \ {v} : /\ h.views[w].active <=> g.views[w].active
                             /\ h.views[w].focus <=> g.views[w].focus
  BY <1>3, <1>5, <1>8
<1> QED BY <1>8, <1>9, <1>10, <1>11, <1>12, <1>13, Zenon DEF Raised

\* The toolbar and the strip are drawn for a state that has what it takes.
LEMMA Drawn ==
  ASSUME NEW s, NEW g \in State(s), Tabs(g), InRange(g), Shown(g), Focused(g),
         ~g.browser.editing => AddressTrue(g), Labelled(g), NEW h, h = draw_toolbar(g)
  PROVE  /\ h \in State(s) /\ Good(h)
         /\ h.browser = g.browser /\ h.views = g.views /\ h.loop = g.loop
<1>1. /\ h \in State(s)
      /\ h.browser = g.browser /\ h.views = g.views /\ h.loop = g.loop
      /\ h.window.strip = g.window.strip
      /\ h.window.content = g.window.content /\ h.window.bar = Bar(g)
  BY SMTT(30), DrawToolbar
<1>2. /\ ActiveView(h) = ActiveView(g) /\ Opened(h) = Opened(g) /\ Count(h) = Count(g)
      /\ Bar(h) = Bar(g) /\ Content(h, ActiveView(h)) = Content(g, ActiveView(g))
  BY <1>1, Zenon DEF ActiveView, Opened, Count, Bar, Content
<1>3. Tabs(h) /\ InRange(h)
  BY <1>1, <1>2 DEF Tabs, InRange
<1>4. Shown(h) /\ Focused(h)
  BY <1>1, <1>2, Zenon DEF Shown, Focused
<1>5. Truthful(h)
  <2>1. Labelled(h)
    BY <1>1, LabelledAgain, Zenon DEF SameTabs
  <2>2. ToolbarTrue(h)
    BY <1>1, <1>2, BarTrue
  <2>3. ~h.browser.editing => AddressTrue(h)
    BY <1>1, <1>2, AddressAgain
  <2> QED BY <2>1, <2>2, <2>3 DEF Truthful
<1> QED BY <1>1, <1>3, <1>4, <1>5, Zenon DEF Good

LEMMA Activate ==
  ASSUME NEW s, NEW g \in State(s), Tabs(g), NEW i \in Nat, i < Count(g),
         NEW h, h = activate(g, i)
  PROVE  /\ h \in State(s) /\ Good(h)
         /\ h.browser.tabs = g.browser.tabs /\ h.browser.active = i
         /\ ~h.browser.editing /\ h.loop = g.loop
         /\ SameBuffers(g, h) /\ SamePages(g, h)
<1>0. i + 1 \in 1 .. Count(g) /\ Count(g) > 0
  BY TabsAre
<1>v. PICK v \in View : v = g.browser.tabs[i + 1]
  BY <1>0, TabsAre, Zenon
<1>1. PICK a : a = HideOthers(g, v)
  OBVIOUS
<1>2. /\ a \in State(s)
      /\ a.browser = g.browser /\ a.loop = g.loop
      /\ SameBuffers(g, a) /\ SamePages(g, a)
      /\ \A w \in View :
           /\ a.views[w].active <=> g.views[w].active /\ w \notin Opened(g) \ {v}
           /\ a.views[w].focus <=> g.views[w].focus /\ w \notin Opened(g) \ {v}
  BY <1>1, Hiding
<1>3. PICK b : b = Placed(a, i)
  OBVIOUS
<1>4. /\ b \in State(s) /\ b.views = a.views /\ b.loop = a.loop
      /\ b.browser.tabs = g.browser.tabs /\ b.browser.active = i /\ ~b.browser.editing
  BY <1>2, <1>3, SetPlace
<1>5. PICK d : d = wpe_view_focus_in(orange_view_set_active(b, v, TRUE), v)
  OBVIOUS
<1>e. Raised(s, b, d, v)
  BY <1>4, <1>5, Raise
<1>6. /\ d \in State(s)
      /\ d.browser = b.browser /\ d.loop = b.loop /\ d.window.content = Content(d, v)
      /\ SameBuffers(b, d) /\ SamePages(b, d)
  BY <1>e, Zenon DEF Raised
<1>f. /\ d.views[v].active /\ d.views[v].focus
      /\ \A w \in View \ {v} : /\ d.views[w].active <=> b.views[w].active
                               /\ d.views[w].focus <=> b.views[w].focus
  BY <1>e, Zenon DEF Raised
<1>7. /\ ActiveView(d) = v /\ Opened(d) = Opened(g) /\ Count(d) = Count(g) /\ InRange(d)
  BY <1>v, <1>0, <1>4, <1>6, Zenon DEF ActiveView, Opened, Count, InRange
<1>8. PICK e : e = show_uri(d)
  OBVIOUS
<1>9. /\ e \in State(s)
      /\ e.views = d.views /\ e.window = d.window /\ e.loop = d.loop
      /\ SameTabs(d, e) /\ e.browser.editing = d.browser.editing
      /\ e.browser.address = d.views[ActiveView(d)].uri
  BY <1>6, <1>7, <1>8, ShowUri
<1>10. PICK f : f = draw_tabs(e)
  OBVIOUS
<1>11. /\ f \in State(s)
       /\ f.browser = e.browser /\ f.views = e.views /\ f.loop = e.loop
       /\ f.window.strip = Strip(e) /\ f.window.content = e.window.content
  BY SMTT(30), <1>9, <1>10, DrawTabs
<1>12. h = draw_toolbar(f)
  BY <1>v, <1>1, <1>3, <1>5, <1>8, <1>10, Zenon DEF activate, Placed
<1>13. /\ ActiveView(f) = v /\ Opened(f) = Opened(g) /\ Count(f) = Count(g) /\ InRange(f)
       /\ Strip(f) = Strip(e) /\ Content(f, v) = Content(d, v)
       /\ f.browser.tabs = g.browser.tabs /\ f.browser.active = i
       /\ ~f.browser.editing /\ f.browser.address = f.views[v].uri
  BY <1>4, <1>6, <1>7, <1>9, <1>11, Zenon
     DEF ActiveView, Opened, Count, InRange, Strip, tab_title, Content, SameTabs
<1>14. \A w \in View : w # v => (f.views[w].active <=> g.views[w].active /\ w \notin Opened(g))
  BY <1>2, <1>4, <1>f, <1>9, <1>11
<1>15. \A w \in View \ Opened(g) : ~g.views[w].active
  BY Zenon DEF Tabs
<1>16. \A w \in View : f.views[w].active <=> w = v
  BY <1>f, <1>9, <1>11, <1>14, <1>15, Zenon
<1>17. \A w \in Opened(g) : f.views[w].focus <=> w = v
  <2>1. Opened(g) \subseteq View
    BY TabsAre, Zenon
  <2>2. \A w \in Opened(g) : w # v => ~f.views[w].focus
    BY <1>2, <1>4, <1>f, <1>9, <1>11, <2>1
  <2> QED BY <1>f, <1>9, <1>11, <2>2, Zenon
<1>18. Shown(f) /\ Focused(f)
  BY <1>6, <1>9, <1>11, <1>13, <1>16, <1>17, Zenon DEF Shown, Focused
<1>19. Tabs(f)
  <2>1. v \in Opened(g)
    BY <1>v, <1>0, TabsAre, Zenon
  <2> QED BY <1>13, <1>16, <2>1, Zenon DEF Tabs
<1>20. /\ h \in State(s) /\ Good(h)
       /\ h.browser = f.browser /\ h.views = f.views /\ h.loop = f.loop
  <2>1. Labelled(f) /\ AddressTrue(f)
    BY <1>11, <1>13, StripLabelled, UriTrue
  <2> QED BY <1>11, <1>12, <1>13, <1>18, <1>19, <2>1, Drawn, Zenon
<1>21. SamePages(g, h) /\ SameBuffers(g, h)
  BY <1>2, <1>4, <1>6, <1>9, <1>11, <1>20 DEF SamePages, SameBuffers
<1> QED
  BY <1>2, <1>4, <1>6, <1>9, <1>11, <1>13, <1>20, <1>21

-----------------------------------------------------------------------------
(* Steps within a tab.                                                     *)

\* The step from g to h leaves every tab in place.
WithinTab(s, g, h) ==
  /\ h \in State(s) /\ Good(h) /\ SameTabs(g, h) /\ SameBuffers(g, h) /\ h.loop = g.loop

\* A state in which only the address, the focus and the toolbar were redone.
LEMMA GoodAgain ==
  ASSUME NEW s, NEW g \in State(s), NEW h \in State(s), Good(g), SameTabs(g, h),
         \A w \in View : h.views[w].active <=> g.views[w].active,
         \A w \in View : h.views[w].frame = g.views[w].frame /\ h.views[w].title = g.views[w].title,
         h.window.content = g.window.content, h.window.strip = g.window.strip,
         Focused(h), ToolbarTrue(h), ~h.browser.editing => AddressTrue(h)
  PROVE  Good(h)
<1>1. Tabs(g) /\ InRange(g) /\ Shown(g) /\ Truthful(g)
  BY Zenon DEF Good
<1>2. /\ ActiveView(h) = ActiveView(g) /\ Opened(h) = Opened(g) /\ Count(h) = Count(g)
      /\ InRange(h)
  BY <1>1, Zenon DEF SameTabs, ActiveView, Opened, Count, InRange
<1>3. ActiveView(g) \in View
  BY <1>1, ActiveIs
<1>4. Content(h, ActiveView(h)) = Content(g, ActiveView(g))
  BY <1>2, <1>3, Zenon DEF Content
<1>5. Tabs(h)
  BY <1>1, <1>2 DEF Tabs, SameTabs
<1>6. Shown(h)
  BY <1>1, <1>2, <1>4, Zenon DEF Shown
<1>7. Truthful(h)
  <2>1. \A w \in Opened(g) : h.views[w].title = g.views[w].title
    BY TabsAre
  <2>2. Labelled(h)
    BY <1>1, <2>1, LabelledAgain DEF Truthful
  <2> QED BY <2>2, Zenon DEF Truthful
<1> QED BY <1>2, <1>5, <1>6, <1>7, Zenon DEF Good

\* The focus of a good state after the active view lost or took it.
LEMMA FocusAgain ==
  ASSUME NEW s, NEW g \in State(s), NEW h \in State(s), Good(g), SameTabs(g, h),
         \A w \in View \ {ActiveView(g)} : h.views[w].focus <=> g.views[w].focus,
         h.views[ActiveView(g)].focus <=> ~h.browser.editing
  PROVE  Focused(h)
<1>1. Tabs(g) /\ InRange(g) /\ Focused(g)
  BY Zenon DEF Good
<1>2. ActiveView(h) = ActiveView(g) /\ Opened(h) = Opened(g)
  BY Zenon DEF SameTabs, ActiveView, Opened
<1>3. Opened(g) \subseteq View
  BY TabsAre
<1>4. \A w \in Opened(g) : w # ActiveView(g) => ~g.views[w].focus
  BY <1>1, Zenon DEF Focused
<1>5. ASSUME NEW w \in Opened(h)
      PROVE  h.views[w].focus <=> w = ActiveView(h) /\ ~h.browser.editing
  <2>1. CASE w = ActiveView(g)
    BY <1>2, <2>1, Zenon
  <2>2. CASE w # ActiveView(g)
    BY <1>2, <1>3, <1>4, <1>5, <2>2, Zenon
  <2> QED BY <2>1, <2>2
<1> QED BY <1>5, Zenon DEF Focused

\* The changes of the address field that the handlers below begin with.
Editing(g, clear) ==
  [g EXCEPT !.browser.editing = TRUE, !.browser.replace = ~clear,
            !.browser.address = IF clear THEN Empty ELSE @]
Stopped(g) == [g EXCEPT !.browser.editing = FALSE]
Left(g) == [g EXCEPT !.browser.editing = FALSE, !.browser.replace = FALSE]
TypedInto(g, keyval, rest) ==
  [g EXCEPT !.browser.address = Edited(g, keyval, rest), !.browser.replace = FALSE]

\* They touch the field only.
FieldStep(s, g, h) ==
  /\ h \in State(s)
  /\ h.views = g.views /\ h.window = g.window /\ h.loop = g.loop /\ SameTabs(g, h)

LEMMA EditingField ==
  ASSUME NEW s, NEW g \in State(s), NEW clear \in BOOLEAN, NEW h, h = Editing(g, clear)
  PROVE  FieldStep(s, g, h) /\ h.browser.editing
<1>1. g.browser \in BrowserRec
  BY Parts
<1>2. PICK b : b = [g.browser EXCEPT !.editing = TRUE, !.replace = ~clear,
                                     !.address = IF clear THEN Empty ELSE @]
  OBVIOUS
<1>3. b \in BrowserRec
  BY <1>1, <1>2, Zenon DEF BrowserRec, Address
<1>4. b.tabs = g.browser.tabs /\ b.active = g.browser.active /\ b.editing
  BY <1>1, <1>2, Zenon DEF BrowserRec
<1>5. h.browser = b /\ h.views = g.views /\ h.window = g.window /\ h.loop = g.loop
  BY <1>2, Zenon DEF Editing, State
<1>6. h \in State(s)
  BY <1>2, <1>3, Zenon DEF Editing, State
<1> QED BY <1>4, <1>5, <1>6, Zenon DEF FieldStep, SameTabs

LEMMA StoppedField ==
  ASSUME NEW s, NEW g \in State(s), NEW h, h = Stopped(g) \/ h = Left(g)
  PROVE  FieldStep(s, g, h) /\ ~h.browser.editing
<1>1. CASE h = Stopped(g)
  <2>1. h \in State(s)
    BY <1>1, Zenon DEF Stopped, State, BrowserRec
  <2> QED BY <1>1, <2>1, Zenon DEF Stopped, State, BrowserRec, FieldStep, SameTabs
<1>2. CASE h = Left(g)
  <2>1. h \in State(s)
    BY <1>2, Zenon DEF Left, State, BrowserRec
  <2> QED BY <1>2, <2>1, Zenon DEF Left, State, BrowserRec, FieldStep, SameTabs
<1> QED BY <1>1, <1>2

LEMMA TypedField ==
  ASSUME NEW s, NEW g \in State(s), NEW keyval, NEW rest, NEW h, h = TypedInto(g, keyval, rest)
  PROVE  FieldStep(s, g, h) /\ (h.browser.editing <=> g.browser.editing)
<1>0. g.browser.address \in Address
  BY Parts, BrowserParts, Zenon
<1>1. Edited(g, keyval, rest) \in Address
  BY <1>0, Zenon DEF Edited, Address
<1>2. h \in State(s)
  BY <1>1, Zenon DEF TypedInto, State, BrowserRec
<1> QED BY <1>2, Zenon DEF TypedInto, State, BrowserRec, FieldStep, SameTabs

\* A redrawn toolbar makes a good state of one with an honest address and focus.
LEMMA Redrawn ==
  ASSUME NEW s, NEW g \in State(s), NEW b \in State(s), Good(g), SameTabs(g, b),
         \A w \in View : b.views[w].active <=> g.views[w].active,
         \A w \in View : b.views[w].frame = g.views[w].frame /\ b.views[w].title = g.views[w].title,
         b.window.content = g.window.content, b.window.strip = g.window.strip,
         \A w \in View \ {ActiveView(g)} : b.views[w].focus <=> g.views[w].focus,
         b.views[ActiveView(g)].focus <=> ~b.browser.editing,
         ~b.browser.editing => AddressTrue(b), NEW h, h = draw_toolbar(b)
  PROVE  /\ h \in State(s) /\ Good(h) /\ SameTabs(g, h)
         /\ h.browser = b.browser /\ h.views = b.views /\ h.loop = b.loop
<1>1. InRange(g)
  BY Zenon DEF Good
<1>2. InRange(b) /\ ActiveView(b) = ActiveView(g)
  BY <1>1, Zenon DEF InRange, SameTabs, Count, ActiveView
<1>3. /\ h \in State(s)
      /\ h.browser = b.browser /\ h.views = b.views /\ h.loop = b.loop
      /\ h.window.strip = b.window.strip
      /\ h.window.content = b.window.content /\ h.window.bar = Bar(b)
  BY <1>2, DrawToolbar
<1>4. SameTabs(g, h) /\ ActiveView(h) = ActiveView(g) /\ Bar(h) = Bar(b)
  BY <1>2, <1>3, Zenon DEF SameTabs, ActiveView, Bar
<1>5. Focused(h)
  <2>1. /\ \A w \in View \ {ActiveView(g)} : h.views[w].focus <=> g.views[w].focus
        /\ h.views[ActiveView(g)].focus <=> ~h.browser.editing
    BY <1>3
  <2> QED BY <1>3, <1>4, <2>1, FocusAgain
<1>6. Good(h)
  <2>1. \A w \in View : h.views[w].active <=> g.views[w].active
    BY <1>3
  <2>2. \A w \in View : h.views[w].frame = g.views[w].frame /\ h.views[w].title = g.views[w].title
    BY <1>3
  <2>3. ~h.browser.editing => AddressTrue(h)
    BY <1>2, <1>3, <1>4, AddressAgain
  <2>4. ToolbarTrue(h)
    BY <1>3, <1>4, BarTrue
  <2> QED BY <1>3, <1>4, <1>5, <2>1, <2>2, <2>3, <2>4, GoodAgain
<1> QED BY <1>3, <1>4, <1>6

LEMMA EditAddress ==
  ASSUME NEW s, NEW g \in State(s), Good(g), NEW clear \in BOOLEAN,
         NEW h, h = edit_address(g, clear)
  PROVE  WithinTab(s, g, h)
<1>v. PICK v \in View : v = ActiveView(g)
  BY ActiveIs DEF Good
<1>1. PICK a : a = Editing(g, clear)
  OBVIOUS
<1>2. FieldStep(s, g, a) /\ a.browser.editing
  BY <1>1, EditingField
<1>3. PICK b : b = wpe_view_focus_out(a, v)
  OBVIOUS
<1>4. FlagStep(s, a, b)
  BY <1>2, <1>3, FocusOut DEF FieldStep
<1>5. /\ \A w \in View : b.views[w].active <=> a.views[w].active
      /\ ~b.views[v].focus
      /\ \A w \in View \ {v} : b.views[w].focus <=> a.views[w].focus
  BY <1>2, <1>3, FocusOut DEF FieldStep
<1>6. h = draw_toolbar(b)
  BY <1>v, <1>1, <1>3, Zenon DEF edit_address, Editing
<1>7. /\ b \in State(s) /\ SameTabs(g, b) /\ b.browser.editing /\ b.loop = g.loop
      /\ b.window = g.window /\ SamePages(g, b) /\ SameBuffers(g, b)
  BY <1>2, <1>4, SameChain DEF FieldStep, FlagStep, SameTabs
<1>8. /\ \A w \in View : b.views[w].active <=> g.views[w].active
      /\ ~b.views[v].focus
      /\ \A w \in View \ {v} : b.views[w].focus <=> g.views[w].focus
  BY <1>2, <1>5 DEF FieldStep
<1>9. \A w \in View : b.views[w].frame = g.views[w].frame /\ b.views[w].title = g.views[w].title
  BY <1>7, Zenon DEF SamePages
<1>10. /\ h \in State(s) /\ Good(h) /\ SameTabs(g, h) /\ h.views = b.views /\ h.loop = b.loop
  BY <1>v, <1>6, <1>7, <1>8, <1>9, Redrawn
<1>11. SameBuffers(g, h)
  BY <1>7, <1>10, SameChain
<1> QED BY <1>7, <1>10, <1>11 DEF WithinTab

\* Back in the page, from a good state: the field shows its address, it has the focus.
Restored(s, g, b) ==
  /\ b \in State(s) /\ SameTabs(g, b) /\ ~b.browser.editing /\ b.loop = g.loop
  /\ b.window = g.window /\ SamePages(g, b) /\ SameBuffers(g, b)
  /\ b.browser.address = g.views[ActiveView(g)].uri
  /\ \A w \in View : b.views[w].active <=> g.views[w].active
  /\ b.views[ActiveView(g)].focus
  /\ \A w \in View \ {ActiveView(g)} : b.views[w].focus <=> g.views[w].focus

LEMMA RestoredDrawn ==
  ASSUME NEW s, NEW g \in State(s), Good(g), NEW b, Restored(s, g, b),
         NEW h, h = draw_toolbar(b)
  PROVE  WithinTab(s, g, h)
<1>v. PICK v \in View : v = ActiveView(g)
  BY ActiveIs DEF Good
<1>1. /\ b \in State(s) /\ SameTabs(g, b) /\ ~b.browser.editing /\ b.loop = g.loop
      /\ b.window = g.window /\ SamePages(g, b) /\ SameBuffers(g, b)
      /\ b.browser.address = g.views[v].uri
  BY <1>v, Zenon DEF Restored
<1>2. /\ \A w \in View : b.views[w].active <=> g.views[w].active
      /\ b.views[v].focus
      /\ \A w \in View \ {v} : b.views[w].focus <=> g.views[w].focus
  BY <1>v, Zenon DEF Restored
<1>3. /\ \A w \in View : b.views[w].frame = g.views[w].frame /\ b.views[w].title = g.views[w].title
      /\ AddressTrue(b)
  <2>1. ActiveView(b) = v
    BY <1>v, <1>1, Zenon DEF SameTabs, ActiveView
  <2> QED BY <1>1, <2>1, Zenon DEF SamePages, AddressTrue
<1>4. /\ h \in State(s) /\ Good(h) /\ SameTabs(g, h) /\ h.views = b.views /\ h.loop = b.loop
  BY <1>v, <1>1, <1>2, <1>3, Redrawn
<1>5. SameBuffers(g, h)
  BY <1>1, <1>4, SameChain
<1> QED BY <1>1, <1>4, <1>5 DEF WithinTab

LEMMA LeavingField ==
  ASSUME NEW s, NEW g \in State(s), Good(g), NEW h, h = LeaveField(g)
  PROVE  WithinTab(s, g, h)
<1>v. PICK v \in View : v = ActiveView(g)
  BY ActiveIs DEF Good
<1>1. PICK a : a = Left(g)
  OBVIOUS
<1>2. FieldStep(s, g, a) /\ ~a.browser.editing
  BY <1>1, StoppedField
<1>3. InRange(a) /\ ActiveView(a) = v
  BY <1>v, <1>2, Zenon DEF Good, InRange, FieldStep, SameTabs, Count, ActiveView
<1>4. PICK b : b = show_uri(a)
  OBVIOUS
<1>5. /\ b \in State(s)
      /\ b.views = a.views /\ b.window = a.window /\ b.loop = a.loop
      /\ SameTabs(a, b) /\ b.browser.editing = a.browser.editing
      /\ b.browser.address = a.views[v].uri
  BY <1>2, <1>3, <1>4, ShowUri DEF FieldStep
<1>6. PICK c : c = wpe_view_focus_in(b, v)
  OBVIOUS
<1>7. FlagStep(s, b, c)
  BY <1>5, <1>6, FocusIn
<1>8. /\ \A w \in View : c.views[w].active <=> b.views[w].active
      /\ c.views[v].focus
      /\ \A w \in View \ {v} : c.views[w].focus <=> b.views[w].focus
  BY <1>5, <1>6, FocusIn
<1>9. h = draw_toolbar(c)
  <2>1. ActiveView(b) = v
    BY <1>3, <1>5, Zenon DEF SameTabs, ActiveView
  <2> QED BY <1>1, <1>4, <1>6, <2>1, Zenon DEF LeaveField, Left
<1>10. Restored(s, g, c)
  <2>1. /\ c \in State(s) /\ SameTabs(g, c) /\ ~c.browser.editing /\ c.loop = g.loop
        /\ c.window = g.window /\ c.browser.address = g.views[v].uri
    BY <1>2, <1>5, <1>7 DEF FieldStep, FlagStep, SameTabs
  <2>2. SamePages(g, c) /\ SameBuffers(g, c)
    BY <1>2, <1>5, <1>7, SameChain DEF FieldStep, FlagStep
  <2>3. /\ \A w \in View : c.views[w].active <=> g.views[w].active
        /\ c.views[v].focus
        /\ \A w \in View \ {v} : c.views[w].focus <=> g.views[w].focus
    BY <1>2, <1>5, <1>8 DEF FieldStep
  <2> QED BY <1>v, <2>1, <2>2, <2>3, Zenon DEF Restored
<1> QED BY <1>9, <1>10, RestoredDrawn

\* A press on the page leaves the field, and the page has the focus.
LEMMA ContentClick ==
  ASSUME NEW s, NEW g \in State(s), Good(g), NEW h, h = content_click(g)
  PROVE  WithinTab(s, g, h)
<1>v. PICK v \in View : v = ActiveView(g)
  BY ActiveIs DEF Good
<1>0. InRange(g) /\ Truthful(g)
  BY Zenon DEF Good
<1>1. PICK c : c = IF g.browser.editing THEN draw_toolbar(show_uri(Stopped(g))) ELSE g
  OBVIOUS
<1>2. /\ c \in State(s) /\ SameTabs(g, c) /\ c.loop = g.loop /\ c.views = g.views
      /\ c.window.content = g.window.content /\ c.window.strip = g.window.strip
      /\ ~c.browser.editing /\ AddressTrue(c) /\ ToolbarTrue(c)
  <2>1. CASE ~g.browser.editing
    <3>1. c = g
      BY <1>1, <2>1, Zenon
    <3> QED BY <1>v, <1>0, <2>1, <3>1, Zenon DEF Truthful, SameTabs
  <2>2. CASE g.browser.editing
    <3>1. PICK a : a = Stopped(g)
      OBVIOUS
    <3>2. FieldStep(s, g, a) /\ ~a.browser.editing
      BY <3>1, StoppedField
    <3>3. InRange(a) /\ ActiveView(a) = v
      BY <1>v, <1>0, <3>2, Zenon DEF InRange, FieldStep, SameTabs, Count, ActiveView
    <3>4. PICK b : b = show_uri(a)
      OBVIOUS
    <3>5. /\ b \in State(s)
          /\ b.views = a.views /\ b.window = a.window /\ b.loop = a.loop
          /\ SameTabs(a, b) /\ b.browser.editing = a.browser.editing
          /\ b.browser.address = a.views[v].uri
      BY <3>2, <3>3, <3>4, ShowUri DEF FieldStep
    <3>6. InRange(b)
      BY <3>3, <3>5, Zenon DEF InRange, SameTabs, Count
    <3>7. c = draw_toolbar(b)
      BY <1>1, <2>2, <3>1, <3>4, Zenon
    <3>8. /\ c \in State(s)
          /\ c.browser = b.browser /\ c.views = b.views /\ c.loop = b.loop
          /\ c.window.strip = b.window.strip
          /\ c.window.content = b.window.content /\ c.window.bar = Bar(b)
      BY <3>5, <3>6, <3>7, DrawToolbar
    <3>9. ToolbarTrue(c) /\ AddressTrue(c)
      <4>1. Bar(c) = Bar(b) /\ ActiveView(c) = v
        BY <3>3, <3>5, <3>8, Zenon DEF Bar, ActiveView, SameTabs
      <4> QED BY <3>5, <3>8, <4>1, BarTrue, UriTrue
    <3> QED BY <3>2, <3>5, <3>8, <3>9 DEF FieldStep, SameTabs
  <2> QED BY <2>1, <2>2
<1>3. ActiveView(c) = v
  BY <1>v, <1>2, Zenon DEF SameTabs, ActiveView
<1>4. h = wpe_view_focus_in(c, v)
  BY <1>1, <1>3, Zenon DEF content_click, Stopped
<1>5. FlagStep(s, c, h)
  BY <1>2, <1>4, FocusIn
<1>6. /\ \A w \in View : h.views[w].active <=> c.views[w].active
      /\ h.views[v].focus
      /\ \A w \in View \ {v} : h.views[w].focus <=> c.views[w].focus
  BY <1>2, <1>4, FocusIn
<1>7. /\ h \in State(s) /\ h.browser = c.browser /\ h.window = c.window /\ h.loop = c.loop
      /\ SamePages(c, h) /\ SameBuffers(c, h)
  BY <1>5, Zenon DEF FlagStep
<1>8. ActiveView(h) = v /\ SameTabs(g, h)
  BY <1>2, <1>3, <1>7, Zenon DEF SameTabs, ActiveView
<1>9. /\ AddressTrue(h) /\ ToolbarTrue(h)
      /\ \A w \in View : h.views[w].frame = c.views[w].frame /\ h.views[w].title = c.views[w].title
  <2>1. /\ h.views[v].uri = c.views[v].uri /\ h.views[v].progress = c.views[v].progress
        /\ \A w \in View : /\ h.views[w].frame = c.views[w].frame
                           /\ h.views[w].title = c.views[w].title
    BY <1>7, Zenon DEF SamePages
  <2> QED BY <1>2, <1>3, <1>7, <1>8, <2>1, AddressAgain, ToolbarAgain
<1>10. Focused(h)
  <2>1. \A w \in View \ {ActiveView(g)} : h.views[w].focus <=> g.views[w].focus
    BY <1>v, <1>2, <1>6
  <2>2. h.views[ActiveView(g)].focus <=> ~h.browser.editing
    BY <1>v, <1>2, <1>6, <1>7
  <2> QED BY <1>7, <1>8, <2>1, <2>2, FocusAgain
<1>11. Good(h)
  <2>1. \A w \in View : h.views[w].active <=> g.views[w].active
    BY <1>2, <1>6
  <2>2. \A w \in View : h.views[w].frame = g.views[w].frame /\ h.views[w].title = g.views[w].title
    BY <1>2, <1>9
  <2>3. h.window.content = g.window.content /\ h.window.strip = g.window.strip
    BY <1>2, <1>7
  <2> QED BY <1>7, <1>8, <1>9, <1>10, <2>1, <2>2, <2>3, GoodAgain
<1>12. SameBuffers(g, h)
  BY <1>2, <1>7, SameChain
<1> QED BY <1>2, <1>7, <1>8, <1>11, <1>12 DEF WithinTab

\* A key typed into the field.
LEMMA Typing ==
  ASSUME NEW s, NEW g \in State(s), Good(g), g.browser.editing, NEW keyval, NEW rest,
         NEW h, h = draw_toolbar(TypedInto(g, keyval, rest))
  PROVE  WithinTab(s, g, h)
<1>v. PICK v \in View : v = ActiveView(g)
  BY ActiveIs DEF Good
<1>1. PICK a : a = TypedInto(g, keyval, rest)
  OBVIOUS
<1>2. FieldStep(s, g, a) /\ a.browser.editing
  BY <1>1, TypedField
<1>3. /\ a \in State(s) /\ a.views = g.views /\ a.window = g.window /\ a.loop = g.loop
      /\ SameTabs(g, a) /\ a.browser.editing
  BY <1>2, Zenon DEF FieldStep
<1>4. ~a.views[v].focus
  <2>1. v \in Opened(g) /\ Focused(g)
    BY <1>v, ActiveIs DEF Good
  <2> QED BY <1>v, <1>3, <2>1, Zenon DEF Focused
<1>5. /\ h \in State(s) /\ Good(h) /\ SameTabs(g, h) /\ h.views = a.views /\ h.loop = a.loop
  <2>1. h = draw_toolbar(a)
    BY <1>1
  <2>2. /\ \A w \in View : a.views[w].active <=> g.views[w].active
        /\ \A w \in View : a.views[w].frame = g.views[w].frame /\ a.views[w].title = g.views[w].title
        /\ \A w \in View \ {v} : a.views[w].focus <=> g.views[w].focus
        /\ a.views[v].focus <=> ~a.browser.editing
        /\ a.window.content = g.window.content /\ a.window.strip = g.window.strip
    BY <1>3, <1>4, Zenon
  <2> QED BY <1>v, <1>3, <2>1, <2>2, Redrawn
<1>6. SameBuffers(g, h)
  BY <1>3, <1>5, SameChain
<1> QED BY <1>3, <1>5, <1>6 DEF WithinTab

\* A page's new address.
WithUri(g, v, uri) == [g EXCEPT !.views[v].uri = uri]

LEMMA SetUri ==
  ASSUME NEW s, NEW g \in State(s), NEW v \in View, NEW uri \in Uri, NEW h, h = WithUri(g, v, uri)
  PROVE  /\ h \in State(s)
         /\ h.browser = g.browser /\ h.window = g.window /\ h.loop = g.loop
         /\ SameBuffers(g, h)
         /\ h.views[v].uri = uri
         /\ \A w \in View \ {v} : h.views[w].uri = g.views[w].uri
         /\ \A w \in View : /\ h.views[w].frame = g.views[w].frame /\ h.views[w].title = g.views[w].title
                            /\ h.views[w].progress = g.views[w].progress
                            /\ h.views[w].active = g.views[w].active
                            /\ h.views[w].focus = g.views[w].focus
<1>1. g.views[v] \in ViewRec
  BY ViewOf, Zenon
<1>2. [g.views[v] EXCEPT !.uri = uri] \in ViewRec
  BY <1>1, Zenon DEF ViewRec
<1>3. h \in State(s)
  BY <1>2, Zenon DEF WithUri, State
<1>4. /\ h.browser = g.browser /\ h.window = g.window /\ h.loop = g.loop
      /\ \A w \in View \ {v} : h.views[w] = g.views[w]
  BY Zenon DEF WithUri, State
<1>5. h.views[v] = [g.views[v] EXCEPT !.uri = uri]
  BY Zenon DEF WithUri, State
<1>6. /\ h.views[v].uri = uri /\ h.views[v].frame = g.views[v].frame
      /\ h.views[v].title = g.views[v].title
      /\ h.views[v].progress = g.views[v].progress /\ h.views[v].active = g.views[v].active
      /\ h.views[v].focus = g.views[v].focus /\ h.views[v].lent = g.views[v].lent
      /\ h.views[v].shown = g.views[v].shown /\ h.views[v].idle = g.views[v].idle
      /\ h.views[v].history = g.views[v].history
  BY <1>1, <1>5, Zenon DEF ViewRec
<1>7. SameBuffers(g, h)
  BY <1>4, <1>6, Zenon DEF SameBuffers
<1> QED BY <1>3, <1>4, <1>6, <1>7, Zenon

LEMMA OnUri ==
  ASSUME NEW s, NEW g \in State(s), Good(g), NEW u \in View, NEW uri \in Uri,
         NEW h, h = on_uri(WithUri(g, u, uri), u)
  PROVE  WithinTab(s, g, h) /\ h.views[u].uri = uri
<1>v. PICK v \in View : v = ActiveView(g)
  BY ActiveIs DEF Good
<1>0. InRange(g) /\ Truthful(g) /\ Focused(g) /\ v \in Opened(g)
  BY <1>v, ActiveIs, Zenon DEF Good
<1>1. PICK a : a = WithUri(g, u, uri)
  OBVIOUS
<1>2. /\ a \in State(s)
      /\ a.browser = g.browser /\ a.window = g.window /\ a.loop = g.loop
      /\ SameBuffers(g, a)
      /\ a.views[u].uri = uri
      /\ \A w \in View \ {u} : a.views[w].uri = g.views[w].uri
      /\ \A w \in View : /\ a.views[w].frame = g.views[w].frame /\ a.views[w].title = g.views[w].title
                         /\ a.views[w].progress = g.views[w].progress
                         /\ a.views[w].active = g.views[w].active
                         /\ a.views[w].focus = g.views[w].focus
  BY SMTT(30), <1>1, SetUri
<1>3. SameTabs(g, a) /\ ActiveView(a) = v /\ InRange(a) /\ Opened(a) = Opened(g)
  BY <1>v, <1>0, <1>2, Zenon DEF SameTabs, ActiveView, InRange, Count, Opened
<1>4. \A w \in View : /\ a.views[w].active <=> g.views[w].active
                      /\ a.views[w].focus <=> g.views[w].focus
  BY <1>2, Zenon
<1>5. a.views[v].focus <=> ~a.browser.editing
  BY <1>v, <1>0, <1>2, <1>4, Zenon DEF Focused
<1>6. CASE u # v
  <2>1. h = a
    BY <1>1, <1>3, <1>6, Zenon DEF on_uri
  <2>2. ToolbarTrue(a)
    BY <1>v, <1>0, <1>2, <1>3, ToolbarAgain, Zenon DEF Truthful
  <2>3. ~a.browser.editing => AddressTrue(a)
    BY SMTT(30), <1>v, <1>0, <1>2, <1>3, <1>6, AddressAgain DEF Truthful
  <2>4. Focused(a)
    BY <1>v, <1>2, <1>3, <1>4, <1>5, FocusAgain
  <2>5. Good(a)
    <3>1. /\ a.window.content = g.window.content /\ a.window.strip = g.window.strip
          /\ \A w \in View : a.views[w].active <=> g.views[w].active
          /\ \A w \in View : a.views[w].frame = g.views[w].frame /\ a.views[w].title = g.views[w].title
      BY <1>2, <1>4, Zenon
    <3> QED BY <1>2, <1>3, <2>2, <2>3, <2>4, <3>1, GoodAgain
  <2> QED BY <1>2, <1>3, <2>1, <2>5, Zenon DEF WithinTab
<1>7. CASE u = v
  <2>1. PICK b : b = IF a.browser.editing THEN a ELSE show_uri(a)
    OBVIOUS
  <2>2. /\ b \in State(s) /\ SameTabs(g, b) /\ b.views = a.views /\ b.window = a.window
        /\ b.loop = a.loop /\ b.browser.editing = a.browser.editing
        /\ ~b.browser.editing => AddressTrue(b)
    <3>1. CASE a.browser.editing
      BY <1>2, <1>3, <2>1, <3>1, Zenon
    <3>2. CASE ~a.browser.editing
      <4>1. b = show_uri(a)
        BY <2>1, <3>2, Zenon
      <4>2. /\ b \in State(s)
            /\ b.views = a.views /\ b.window = a.window /\ b.loop = a.loop
            /\ SameTabs(a, b) /\ b.browser.editing = a.browser.editing
            /\ b.browser.address = a.views[v].uri
        BY <1>2, <1>3, <4>1, ShowUri
      <4>3. ActiveView(b) = v
        BY <1>3, <4>2, Zenon DEF SameTabs, ActiveView
      <4> QED BY <1>3, <4>2, <4>3, Zenon DEF SameTabs, AddressTrue
    <3> QED BY <3>1, <3>2
  <2>3. h = draw_toolbar(b)
    BY <1>1, <1>3, <1>7, <2>1, Zenon DEF on_uri
  <2>4. /\ \A w \in View : b.views[w].active <=> g.views[w].active
        /\ \A w \in View : b.views[w].frame = g.views[w].frame /\ b.views[w].title = g.views[w].title
        /\ b.window.content = g.window.content /\ b.window.strip = g.window.strip
        /\ \A w \in View \ {v} : b.views[w].focus <=> g.views[w].focus
        /\ b.views[v].focus <=> ~b.browser.editing
    BY <1>2, <1>4, <1>5, <2>2, Zenon
  <2>5. h \in State(s) /\ Good(h) /\ SameTabs(g, h) /\ h.views = b.views /\ h.loop = b.loop
    BY <1>v, <2>2, <2>3, <2>4, Redrawn
  <2>6. SameBuffers(g, h)
    BY <1>2, <2>2, <2>5, SameChain
  <2> QED BY <1>2, <2>2, <2>5, <2>6, Zenon DEF WithinTab
<1> QED BY <1>6, <1>7

LEMMA Unmoved ==
  ASSUME NEW s, NEW g \in State(s), Good(g)
  PROVE  WithinTab(s, g, g)
BY Zenon DEF WithinTab, SameTabs, SameBuffers

LEMMA WithinChain ==
  ASSUME NEW s, NEW a, NEW b, NEW c, WithinTab(s, a, b), WithinTab(s, b, c)
  PROVE  WithinTab(s, a, c)
<1>1. SameBuffers(a, c)
  BY SameChain DEF WithinTab
<1> QED BY <1>1, Zenon DEF WithinTab, SameTabs

LEMMA LoadUri ==
  ASSUME NEW s, NEW g \in State(s), Good(g), NEW v \in View, NEW uri \in Uri,
         NEW h, h = webkit_web_view_load_uri(g, v, uri)
  PROVE  WithinTab(s, g, h) /\ h.views[v].uri = uri
<1>1. CASE g.views[v].uri = uri
  BY <1>1, Unmoved, Zenon DEF webkit_web_view_load_uri
<1>2. CASE g.views[v].uri # uri
  <2>1. h = on_uri(WithUri(g, v, uri), v)
    BY <1>2, Zenon DEF webkit_web_view_load_uri, WithUri
  <2> QED BY <2>1, OnUri
<1> QED BY <1>1, <1>2

LEMMA UrlIsUri ==
  ASSUME NEW text
  PROVE  address_to_url(text) \in Uri
BY BrowserAssumption DEF address_to_url

LEMMA Navigate ==
  ASSUME NEW s, NEW g \in State(s), Good(g), NEW h, h = navigate(g)
  PROVE  WithinTab(s, g, h)
<1>v. PICK v \in View : v = ActiveView(g)
  BY ActiveIs DEF Good
<1>1. PICK uri \in Uri : uri = address_to_url(g.browser.address)
  BY UrlIsUri
<1>2. PICK b : b = webkit_web_view_load_uri(g, v, uri)
  OBVIOUS
<1>3. WithinTab(s, g, b)
  BY <1>2, LoadUri
<1>4. b \in State(s) /\ Good(b) /\ SameTabs(g, b)
  BY <1>3, Zenon DEF WithinTab
<1>5. ActiveView(b) = v /\ InRange(b)
  BY <1>v, <1>4, Zenon DEF ActiveView, SameTabs, Good
<1>6. PICK c : c = Stopped(b)
  OBVIOUS
<1>7. FieldStep(s, b, c) /\ ~c.browser.editing
  BY <1>4, <1>6, StoppedField
<1>8. /\ c \in State(s) /\ c.views = b.views /\ c.window = b.window /\ c.loop = b.loop
      /\ SameTabs(b, c)
  BY <1>7, Zenon DEF FieldStep
<1>9. PICK d : d = wpe_view_focus_in(c, v)
  OBVIOUS
<1>10. FlagStep(s, c, d)
  BY <1>8, <1>9, FocusIn
<1>11. /\ \A w \in View : d.views[w].active <=> c.views[w].active
       /\ d.views[v].focus
       /\ \A w \in View \ {v} : d.views[w].focus <=> c.views[w].focus
  BY <1>8, <1>9, FocusIn
<1>12. /\ d \in State(s) /\ d.browser = c.browser /\ d.window = c.window /\ d.loop = c.loop
       /\ SamePages(c, d) /\ SameBuffers(c, d)
  BY <1>10, Zenon DEF FlagStep
<1>13. ActiveView(d) = v /\ InRange(d)
  BY <1>5, <1>8, <1>12, Zenon DEF ActiveView, SameTabs, InRange, Count
<1>14. PICK e : e = show_uri(d)
  OBVIOUS
<1>15. /\ e \in State(s)
       /\ e.views = d.views /\ e.window = d.window /\ e.loop = d.loop
       /\ SameTabs(d, e) /\ e.browser.editing = d.browser.editing
       /\ e.browser.address = d.views[v].uri
  BY <1>12, <1>13, <1>14, ShowUri
<1>16. h = draw_toolbar(e)
  BY <1>v, <1>1, <1>2, <1>5, <1>6, <1>9, <1>14, Zenon DEF navigate, Stopped
<1>17. Restored(s, b, e)
  <2>1. SameTabs(b, e) /\ ~e.browser.editing /\ e.loop = b.loop /\ e.window = b.window
    BY <1>7, <1>8, <1>12, <1>15, Zenon DEF SameTabs
  <2>2. SamePages(b, e) /\ SameBuffers(b, e)
    BY <1>8, <1>12, <1>15, SameChain
  <2>3. e.browser.address = b.views[v].uri
    BY <1>8, <1>12, <1>15, Zenon DEF SamePages
  <2>4. /\ \A w \in View : e.views[w].active <=> b.views[w].active
        /\ e.views[v].focus
        /\ \A w \in View \ {v} : e.views[w].focus <=> b.views[w].focus
    BY <1>8, <1>11, <1>15
  <2> QED BY <1>5, <1>15, <2>1, <2>2, <2>3, <2>4, Zenon DEF Restored
<1>18. WithinTab(s, b, h)
  BY <1>4, <1>16, <1>17, RestoredDrawn
<1> QED BY <1>3, <1>18, WithinChain

-----------------------------------------------------------------------------
(* Opening a tab.                                                          *)

LEMMA BuffersKept ==
  ASSUME NEW g, NEW h, SameBuffers(g, h), Buffers(g)
  PROVE  Buffers(h)
BY Zenon DEF SameBuffers, Buffers, Returned

LEMMA NewViewIs ==
  /\ NewView \in ViewRec /\ Returned(NewView)
  /\ ~NewView.active /\ NewView.uri = Empty /\ NewView.idle = 0
<1>1. 0 \in 0 .. 2 /\ 0 \in Nat
  OBVIOUS
<1>2. NewView \in ViewRec
  BY <1>1, Zenon DEF NewView, ViewRec, NoFrame, NoBuffer
<1>3. /\ NewView.shown = NoBuffer /\ NewView.lent = {}
      /\ ~NewView.active /\ NewView.uri = Empty /\ NewView.idle = 0
  BY Zenon DEF NewView
<1>4. Returned(NewView)
  BY <1>3, Zenon DEF Returned
<1> QED BY <1>2, <1>3, <1>4

\* A view starts anew.
LEMMA NewRecord ==
  ASSUME NEW s, NEW g \in State(s), NEW v \in View, NEW h, h = view_dispose(g, v)
  PROVE  /\ h \in State(s)
         /\ h.browser = g.browser /\ h.window = g.window /\ h.loop = g.loop
         /\ h.views[v] = NewView /\ \A w \in View \ {v} : h.views[w] = g.views[w]
<1>1. NewView \in ViewRec
  BY NewViewIs
<1>2. h \in State(s)
  BY <1>1, Zenon DEF view_dispose, State
<1> QED BY <1>2, Zenon DEF view_dispose, State

LEMMA AddTab ==
  ASSUME NEW s, NEW g \in State(s), Tabs(g), NEW v \in View, v \notin Opened(g),
         NEW h, h = add_tab(g, v)
  PROVE  /\ h \in State(s) /\ Tabs(h) /\ Count(h) = Count(g) + 1
         /\ h.browser.tabs = Append(g.browser.tabs, v) /\ h.browser.tabs[Count(g) + 1] = v
         /\ Buffers(g) => Buffers(h)
         /\ h.views[v] = NewView
<1>1. PICK q \in Seq(View) : q = g.browser.tabs
  BY TabsAre
<1>2. PICK r : r = Append(q, v)
  OBVIOUS
<1>3. /\ r \in Seq(View) /\ Len(r) = Len(q) + 1 /\ r[Len(q) + 1] = v /\ Len(q) \in Nat
      /\ \A i \in 1 .. Len(q) : r[i] = q[i]
  BY <1>2
<1>4. NewView \in ViewRec
  BY NewViewIs
<1>5. h \in State(s)
  BY <1>1, <1>2, <1>3, <1>4, Zenon DEF add_tab, State, BrowserRec
<1>6. /\ h.browser.tabs = r /\ h.views[v] = NewView
      /\ \A w \in View \ {v} : h.views[w] = g.views[w]
  BY <1>1, <1>2, Zenon DEF add_tab, State, BrowserRec
<1>7. Count(g) = Len(q) /\ Count(h) = Len(r)
  BY <1>1, <1>6 DEF Count
<1>8. \A i \in 1 .. Len(q) : q[i] \in Opened(g)
  BY <1>1, <1>7, TabsAre
<1>9. \A i, j \in 1 .. Len(q) : q[i] = q[j] => i = j
  BY <1>1, <1>7, Zenon DEF Tabs
<1>10. \A i, j \in 1 .. Len(r) : r[i] = r[j] => i = j
  <2> SUFFICES ASSUME NEW i \in 1 .. Len(r), NEW j \in 1 .. Len(r), r[i] = r[j] PROVE i = j
    OBVIOUS
  <2>1. CASE i \in 1 .. Len(q) /\ j \in 1 .. Len(q)
    BY <1>3, <1>9, <2>1
  <2>2. CASE i = Len(q) + 1 /\ j = Len(q) + 1
    BY <2>2
  <2>3. CASE i \in 1 .. Len(q) /\ j = Len(q) + 1
    BY <1>3, <1>8, <2>3
  <2>4. CASE i = Len(q) + 1 /\ j \in 1 .. Len(q)
    BY <1>3, <1>8, <2>4
  <2> QED BY <1>3, <2>1, <2>2, <2>3, <2>4
<1>11. \A w \in Opened(g) : w \in Opened(h)
  <2>1. /\ Opened(g) = {g.browser.tabs[i] : i \in 1 .. Count(g)}
        /\ Opened(h) = {h.browser.tabs[i] : i \in 1 .. Count(h)}
    BY <1>5, TabsAre
  <2> QED BY <1>1, <1>3, <1>6, <1>7, <2>1
<1>12. v \in Opened(h)
  <2>1. Opened(h) = {h.browser.tabs[i] : i \in 1 .. Count(h)}
    BY <1>5, TabsAre
  <2> QED BY <1>3, <1>6, <1>7, <2>1
<1>13. Tabs(h)
  <2>1. \A w \in View \ Opened(h) : ~g.views[w].active /\ w # v
    BY <1>11, <1>12, Zenon DEF Tabs
  <2>2. \A w \in View \ Opened(h) : ~h.views[w].active
    BY <1>6, <2>1, Zenon
  <2> QED BY <1>6, <1>7, <1>10, <2>2, Zenon DEF Tabs
<1>14. Buffers(g) => Buffers(h)
  BY <1>6, NewViewIs, Zenon DEF Buffers
<1> QED BY <1>1, <1>2, <1>3, <1>5, <1>6, <1>7, <1>13, <1>14

\* The step from g to h closed no tab.
NoneClosed(s, g, h) ==
  /\ h \in State(s) /\ Good(h) /\ Count(h) >= Count(g)
  /\ Buffers(g) => Buffers(h)

HasRoom(g) == Count(g) = MAX_TABS \/ Fresh(g) # {}

LEMMA OnCreate ==
  ASSUME NEW s, NEW g \in State(s), Tabs(g), Count(g) # MAX_TABS, HasRoom(g),
         NEW h, h = on_create(g)
  PROVE  /\ NoneClosed(s, g, h) /\ NextView(g) \in View
         /\ ActiveView(h) = NextView(g) /\ Count(h) = Count(g) + 1
<1>1. NextView(g) \in Fresh(g)
  BY Zenon DEF HasRoom, NextView
<1>v. PICK v \in View : v = NextView(g) /\ v \notin Opened(g)
  BY <1>1, Zenon DEF Fresh
<1>2. PICK a : a = add_tab(g, v)
  OBVIOUS
<1>3. /\ a \in State(s) /\ Tabs(a) /\ Count(a) = Count(g) + 1
      /\ a.browser.tabs[Count(g) + 1] = v
      /\ Buffers(g) => Buffers(a)
      /\ a.views[v] = NewView
  BY <1>v, <1>2, AddTab
<1>4. h = activate(a, Count(g))
  BY <1>v, <1>2, Zenon DEF on_create
<1>5. Count(g) \in Nat /\ Count(g) < Count(a)
  BY <1>3, TabsAre
<1>6. /\ h \in State(s) /\ Good(h)
      /\ h.browser.tabs = a.browser.tabs /\ h.browser.active = Count(g)
      /\ ~h.browser.editing
      /\ SameBuffers(a, h) /\ SamePages(a, h)
  BY <1>3, <1>4, <1>5, Activate
<1>7. ActiveView(h) = v /\ Count(h) = Count(a)
  BY <1>3, <1>6, Zenon DEF ActiveView, Count
<1>9. Buffers(g) => Buffers(h)
  BY <1>3, <1>6, BuffersKept
<1>10. Count(h) >= Count(g)
  BY <1>3, <1>5, <1>7
<1> QED BY <1>v, <1>3, <1>6, <1>7, <1>9, <1>10, Zenon DEF NoneClosed

LEMMA OpenTab ==
  ASSUME NEW s, NEW g \in State(s), Tabs(g), Count(g) # MAX_TABS, HasRoom(g), NEW uri,
         NEW h, h = open_tab(g, uri)
  PROVE  /\ NoneClosed(s, g, h)
         /\ h.views[ActiveView(h)].uri = address_to_url(uri)
         /\ Count(g) = 0 => Count(h) = 1
<1>v. PICK v \in View : v = NextView(g)
  BY OnCreate
<1>1. PICK a : a = on_create(g)
  OBVIOUS
<1>2. NoneClosed(s, g, a) /\ ActiveView(a) = v /\ (Count(g) = 0 => Count(a) = 1)
  <2>1. NoneClosed(s, g, a) /\ ActiveView(a) = v /\ Count(a) = Count(g) + 1
    BY <1>v, <1>1, OnCreate
  <2> QED BY <2>1
<1>3. PICK url \in Uri : url = address_to_url(uri)
  BY UrlIsUri
<1>4. h = webkit_web_view_load_uri(a, v, url)
  BY <1>v, <1>1, <1>3, Zenon DEF open_tab
<1>5. a \in State(s) /\ Good(a) /\ Count(a) >= Count(g) /\ (Buffers(g) => Buffers(a))
  BY <1>2, Zenon DEF NoneClosed
<1>6. WithinTab(s, a, h) /\ h.views[v].uri = url
  BY <1>4, <1>5, LoadUri
<1>7. h \in State(s) /\ Good(h) /\ SameTabs(a, h) /\ SameBuffers(a, h)
  BY <1>6, Zenon DEF WithinTab
<1>8. ActiveView(h) = v /\ Count(h) = Count(a)
  BY <1>2, <1>7, Zenon DEF SameTabs, ActiveView, Count
<1>9. Buffers(g) => Buffers(h)
  BY <1>5, <1>7, BuffersKept
<1> QED BY <1>2, <1>3, <1>5, <1>6, <1>7, <1>8, <1>9, Zenon DEF NoneClosed

LEMMA NoneClosedChain ==
  ASSUME NEW s, NEW g \in State(s), NEW a, NEW h, NoneClosed(s, g, a), WithinTab(s, a, h)
  PROVE  NoneClosed(s, g, h)
<1>1. /\ a \in State(s) /\ Count(a) >= Count(g) /\ (Buffers(g) => Buffers(a))
      /\ h \in State(s) /\ Good(h) /\ SameTabs(a, h) /\ SameBuffers(a, h)
  BY Zenon DEF NoneClosed, WithinTab
<1>2. Count(h) = Count(a)
  BY <1>1, Zenon DEF SameTabs, Count
<1>3. Buffers(g) => Buffers(h)
  BY <1>1, BuffersKept
<1> QED BY <1>1, <1>2, <1>3, Zenon DEF NoneClosed

-----------------------------------------------------------------------------
(* Closing a tab.                                                          *)

LEMMA Removal ==
  ASSUME NEW q \in Seq(View), NEW k \in 1 .. Len(q), NEW r, r = RemoveAt(q, k)
  PROVE  /\ r \in Seq(View) /\ Len(r) = Len(q) - 1
         /\ \A j \in 1 .. Len(r) : r[j] = IF j < k THEN q[j] ELSE q[j + 1]
<1>1. Len(q) \in Nat /\ k \in Nat /\ k >= 1 /\ k <= Len(q)
  OBVIOUS
<1>2. PICK a : a = SubSeq(q, 1, k - 1)
  OBVIOUS
<1>3. PICK b : b = SubSeq(q, k + 1, Len(q))
  OBVIOUS
<1>4. a \in Seq(View) /\ Len(a) = k - 1 /\ \A j \in 1 .. k - 1 : a[j] = q[j]
  BY <1>1, <1>2
<1>5. /\ b \in Seq(View) /\ Len(b) = Len(q) - k
      /\ \A j \in 1 .. Len(q) - k : b[j] = q[k + j]
  BY <1>1, <1>3
<1>6. r = a \o b
  BY <1>2, <1>3 DEF RemoveAt
<1>7. r \in Seq(View) /\ Len(r) = Len(q) - 1
  BY <1>1, <1>4, <1>5, <1>6
<1>8. ASSUME NEW j \in 1 .. Len(r)
      PROVE  r[j] = IF j < k THEN q[j] ELSE q[j + 1]
  <2>1. CASE j < k
    BY <1>1, <1>4, <1>5, <1>6, <1>7, <1>8, <2>1
  <2>2. CASE ~(j < k)
    <3>1. j - (k - 1) \in 1 .. Len(q) - k
      BY <1>1, <1>7, <1>8, <2>2
    <3>2. r[j] = b[j - (k - 1)]
      BY <1>1, <1>4, <1>5, <1>6, <1>7, <1>8, <2>2
    <3>3. b[j - (k - 1)] = q[k + (j - (k - 1))]
      BY <1>5, <3>1
    <3>4. k + (j - (k - 1)) = j + 1
      BY <1>1, <1>7, <1>8
    <3> QED BY <2>2, <3>2, <3>3, <3>4
  <2> QED BY <2>1, <2>2
<1> QED BY <1>7, <1>8

\* The tabs without the one at `index`.
Without(g, index) == [g EXCEPT !.browser.tabs = RemoveAt(@, index + 1)]

LEMMA WithoutTab ==
  ASSUME NEW s, NEW g \in State(s), NEW i \in Nat, i < Count(g), NEW h, h = Without(g, i)
  PROVE  /\ h \in State(s)
         /\ h.views = g.views /\ h.window = g.window /\ h.loop = g.loop
         /\ h.browser.tabs = RemoveAt(g.browser.tabs, i + 1)
<1>1. PICK q \in Seq(View) : q = g.browser.tabs
  BY TabsAre
<1>2. PICK r : r = RemoveAt(q, i + 1)
  OBVIOUS
<1>3. r \in Seq(View)
  <2>1. i + 1 \in 1 .. Len(q)
    BY <1>1 DEF Count
  <2> QED BY <1>2, <2>1, Removal
<1>4. h \in State(s)
  BY <1>1, <1>2, <1>3, Zenon DEF Without, State, BrowserRec
<1> QED BY <1>1, <1>2, <1>4, Zenon DEF Without, State, BrowserRec

\* The tabs that are left, once the view of the closed one is not active.
Closed(g, i, c) ==
  /\ Tabs(c) /\ Count(c) = Count(g) - 1 /\ g.browser.tabs[i + 1] \notin Opened(c)
  /\ \A j \in 1 .. Count(c) :
       c.browser.tabs[j] = IF j < i + 1 THEN g.browser.tabs[j] ELSE g.browser.tabs[j + 1]

LEMMA Closing ==
  ASSUME NEW s, NEW g \in State(s), Tabs(g), NEW i \in Nat, i < Count(g), NEW c \in State(s),
         NEW v, v = g.browser.tabs[i + 1], c.browser.tabs = RemoveAt(g.browser.tabs, i + 1),
         ~c.views[v].active, \A w \in View \ {v} : c.views[w].active <=> g.views[w].active
  PROVE  Closed(g, i, c)
<1>1. PICK q \in Seq(View) : q = g.browser.tabs
  BY TabsAre
<1>2. Len(q) \in Nat /\ i + 1 \in 1 .. Len(q) /\ Count(g) = Len(q) /\ v = q[i + 1]
  BY <1>1 DEF Count
<1>3. PICK r : r = RemoveAt(q, i + 1)
  OBVIOUS
<1>4. /\ r \in Seq(View) /\ Len(r) = Len(q) - 1
      /\ \A j \in 1 .. Len(r) : r[j] = IF j < i + 1 THEN q[j] ELSE q[j + 1]
  BY <1>2, <1>3, Removal
<1>5. c.browser.tabs = r /\ Count(c) = Len(r)
  BY <1>1, <1>3 DEF Count
<1>6. Opened(g) = {q[j] : j \in 1 .. Len(q)} /\ Opened(c) = {r[j] : j \in 1 .. Len(r)}
  <2>1. Opened(g) = {g.browser.tabs[j] : j \in 1 .. Count(g)}
    BY TabsAre, Zenon
  <2>2. Opened(c) = {c.browser.tabs[j] : j \in 1 .. Count(c)}
    BY TabsAre, Zenon
  <2> QED BY <1>1, <1>2, <1>5, <2>1, <2>2, Zenon
<1>7. \A j, k \in 1 .. Len(q) : q[j] = q[k] => j = k
  BY <1>1, <1>2, Zenon DEF Tabs
<1>8. v \notin Opened(c)
  <2> SUFFICES ASSUME NEW j \in 1 .. Len(r), r[j] = v PROVE FALSE
    BY <1>6
  <2>1. PICK m \in 1 .. Len(q) : r[j] = q[m] /\ m = IF j < i + 1 THEN j ELSE j + 1
    BY <1>2, <1>4
  <2>2. m = i + 1
    BY <1>2, <1>7, <2>1
  <2> QED BY <1>2, <2>1, <2>2
<1>9. \A j, k \in 1 .. Len(r) : r[j] = r[k] => j = k
  <2> SUFFICES ASSUME NEW j \in 1 .. Len(r), NEW k \in 1 .. Len(r), r[j] = r[k] PROVE j = k
    OBVIOUS
  <2>1. PICK m \in 1 .. Len(q) : r[j] = q[m] /\ m = IF j < i + 1 THEN j ELSE j + 1
    BY <1>2, <1>4
  <2>2. PICK n \in 1 .. Len(q) : r[k] = q[n] /\ n = IF k < i + 1 THEN k ELSE k + 1
    BY <1>2, <1>4
  <2>3. m = n
    BY <1>7, <2>1, <2>2
  <2> QED BY <1>2, <2>1, <2>2, <2>3
<1>10. \A w \in Opened(g) : w = v \/ w \in Opened(c)
  <2> SUFFICES ASSUME NEW j \in 1 .. Len(q), q[j] # v PROVE \E k \in 1 .. Len(r) : r[k] = q[j]
    BY <1>6
  <2>1. j # i + 1
    BY <1>2
  <2>2. CASE j < i + 1
    <3>1. j \in 1 .. Len(r) /\ r[j] = q[j]
      BY <1>2, <1>4, <2>2
    <3> QED BY <3>1
  <2>3. CASE j > i + 1
    <3>1. j - 1 \in 1 .. Len(r) /\ ~(j - 1 < i + 1) /\ (j - 1) + 1 = j
      BY <1>2, <1>4, <2>3
    <3>2. r[j - 1] = q[j]
      BY <1>4, <3>1
    <3> QED BY <3>1, <3>2
  <2> QED BY <1>2, <2>1, <2>2, <2>3
<1>11. Tabs(c)
  <2>1. \A w \in View \ Opened(c) : w # v => w \notin Opened(g) /\ ~g.views[w].active
    BY <1>10 DEF Tabs
  <2>2. \A w \in View \ Opened(c) : ~c.views[w].active
    BY <2>1, Zenon
  <2>3. \A j, k \in 1 .. Count(c) : c.browser.tabs[j] = c.browser.tabs[k] => j = k
    BY <1>5, <1>9, Zenon
  <2> QED BY <2>2, <2>3, Zenon DEF Tabs
<1> QED BY <1>1, <1>2, <1>4, <1>5, <1>8, <1>11 DEF Closed

\* The closed tab's view is made inactive,
Hidden(s, g, i, v, b) ==
  /\ b \in State(s) /\ SameBuffers(g, b)
  /\ b.browser.tabs = RemoveAt(g.browser.tabs, i + 1) /\ ~b.views[v].active
  /\ \A w \in View \ {v} : b.views[w].active <=> g.views[w].active

LEMMA ViewHidden ==
  ASSUME NEW s, NEW g \in State(s), NEW i \in Nat, i < Count(g),
         NEW v \in View, NEW b, b = orange_view_set_active(Without(g, i), v, FALSE)
  PROVE  Hidden(s, g, i, v, b)
<1>1. PICK a : a = Without(g, i)
  OBVIOUS
<1>2. /\ a \in State(s) /\ a.views = g.views
      /\ a.browser.tabs = RemoveAt(g.browser.tabs, i + 1)
  BY <1>1, WithoutTab
<1>3. b = Flagged(a, v, FALSE)
  BY <1>1, Zenon DEF orange_view_set_active, Flagged
<1>4. /\ FlagStep(s, a, b) /\ ~b.views[v].active
      /\ \A w \in View \ {v} : b.views[w].active <=> a.views[w].active
  BY <1>2, <1>3, Hides, Zenon
<1>5. b \in State(s) /\ b.browser = a.browser /\ SameBuffers(a, b)
  BY <1>4, Zenon DEF FlagStep
<1>6. SameBuffers(g, b)
  BY <1>2, <1>5, SameChain
<1> QED BY <1>2, <1>4, <1>5, <1>6, Zenon DEF Hidden

\* and its reference is gone.
Unreferenced(g, b, v) == IF g.views[v].idle = 0 THEN view_dispose(b, v) ELSE b
Released(s, b, v, c) ==
  /\ c \in State(s) /\ c.browser = b.browser /\ ~c.views[v].active
  /\ \A w \in View \ {v} : c.views[w] = b.views[w]
  /\ Buffers(b) => Buffers(c)

LEMMA ViewLeft ==
  ASSUME NEW s, NEW g, NEW b \in State(s), NEW v \in View, ~b.views[v].active,
         NEW c, c = Unreferenced(g, b, v)
  PROVE  Released(s, b, v, c)
<1>1. CASE c = b
  BY <1>1, Zenon DEF Released
<1>2. CASE c = view_dispose(b, v)
  <2>1. /\ c \in State(s) /\ c.browser = b.browser
        /\ c.views[v] = NewView /\ \A w \in View \ {v} : c.views[w] = b.views[w]
    BY <1>2, NewRecord
  <2>2. ~c.views[v].active /\ Returned(c.views[v])
    BY <2>1, NewViewIs, Zenon
  <2>3. Buffers(b) => Buffers(c)
    BY <2>1, <2>2, Zenon DEF Buffers
  <2> QED BY <2>1, <2>2, <2>3, Zenon DEF Released
<1> QED BY <1>1, <1>2 DEF Unreferenced

\* What every step leaves behind: a good state, if there are tabs, and in view
\* the same tab, if others were closed.
After(s, g, h) ==
  /\ h \in State(s) /\ (Buffers(g) => Buffers(h))
  /\ Count(h) > 0 => Good(h)
  /\ Count(h) < Count(g) /\ ActiveView(g) \in Opened(h) => ActiveView(h) = ActiveView(g)

LEMMA CloseTab ==
  ASSUME NEW s, NEW g \in State(s), Good(g), NEW i \in Nat, i < Count(g),
         NEW h, h = close_tab(g, i)
  PROVE  After(s, g, h)
<1>1. PICK v : v = g.browser.tabs[i + 1]
  OBVIOUS
<1>2. PICK b : b = orange_view_set_active(Without(g, i), v, FALSE)
  OBVIOUS
<1>3. PICK c : c = Unreferenced(g, b, v)
  OBVIOUS
<1>v. v \in View
  <2>1. i + 1 \in 1 .. Count(g)
    BY TabsAre
  <2> QED BY <1>1, <2>1, TabsAre
<1>a. /\ b \in State(s) /\ SameBuffers(g, b)
      /\ b.browser.tabs = RemoveAt(g.browser.tabs, i + 1) /\ ~b.views[v].active
      /\ \A w \in View \ {v} : b.views[w].active <=> g.views[w].active
  <2>1. Hidden(s, g, i, v, b)
    BY <1>2, <1>v, ViewHidden
  <2> QED BY <2>1 DEF Hidden
<1>c. /\ c \in State(s) /\ c.browser = b.browser /\ ~c.views[v].active
      /\ \A w \in View \ {v} : c.views[w] = b.views[w]
      /\ Buffers(b) => Buffers(c)
  <2>1. Released(s, b, v, c)
    BY <1>3, <1>v, <1>a, ViewLeft
  <2> QED BY <2>1 DEF Released
<1>d. Buffers(g) => Buffers(c)
  BY <1>a, <1>c, BuffersKept
<1>e. Closed(g, i, c)
  <2>1. \A w \in View \ {v} : c.views[w].active <=> g.views[w].active
    BY <1>a, <1>c
  <2>2. c.browser.tabs = RemoveAt(g.browser.tabs, i + 1) /\ ~c.views[v].active /\ c \in State(s)
    BY <1>a, <1>c
  <2> QED BY <1>1, <2>1, <2>2, Closing DEF Good
<1>4. /\ c \in State(s) /\ Tabs(c) /\ (Buffers(g) => Buffers(c)) /\ Count(c) = Count(g) - 1
      /\ v \notin Opened(c)
      /\ \A j \in 1 .. Count(c) :
           c.browser.tabs[j] = IF j < i + 1 THEN g.browser.tabs[j] ELSE g.browser.tabs[j + 1]
  BY <1>1, <1>c, <1>d, <1>e DEF Closed
<1>5. Count(b) = Count(c) /\ Count(c) \in Nat /\ Count(g) \in Nat
  BY <1>4, <1>c, TabsAre DEF Count
<1>6. PICK act \in Nat : act = g.browser.active /\ act < Count(g)
  BY Parts, BrowserParts, Zenon DEF Good, InRange
<1>7. PICK next : next = AfterClose(act, i, Count(b))
  OBVIOUS
<1>8. h = IF Count(b) = 0 THEN [c EXCEPT !.loop = "quit"]
          ELSE activate(c, IF next < Count(b) THEN next ELSE Count(b) - 1)
  BY <1>1, <1>2, <1>3, <1>6, <1>7, Zenon DEF close_tab, Without, Unreferenced
<1>9. CASE Count(b) = 0
  <2>1. h = [c EXCEPT !.loop = "quit"]
    BY <1>8, <1>9, Zenon
  <2>2. h \in State(s)
    BY <1>4, <2>1, Zenon DEF State
  <2>3. h.browser = c.browser /\ h.views = c.views
    BY <1>4, <2>1, Zenon DEF State
  <2>4. Count(h) = 0 /\ (Buffers(g) => Buffers(h))
    BY <1>4, <1>5, <1>9, <2>3, Zenon DEF Count, Buffers
  <2>5. Opened(h) = {}
    BY <2>2, <2>4, TabsAre
  <2> QED BY <2>2, <2>4, <2>5 DEF After
<1>10. CASE Count(b) # 0
  <2>1. PICK k : k = IF next < Count(b) THEN next ELSE Count(b) - 1
    OBVIOUS
  <2>2. k \in Nat /\ k < Count(c)
    BY <1>5, <1>6, <1>7, <1>10, <2>1 DEF AfterClose
  <2>3. h = activate(c, k)
    BY <1>8, <1>10, <2>1, Zenon
  <2>4. /\ h \in State(s) /\ Good(h)
        /\ h.browser.tabs = c.browser.tabs /\ h.browser.active = k /\ SameBuffers(c, h)
    BY <1>4, <2>2, <2>3, Activate
  <2>5. Buffers(g) => Buffers(h)
    BY <1>4, <2>4, BuffersKept
  <2>6. ASSUME ActiveView(g) \in Opened(h) PROVE ActiveView(h) = ActiveView(g)
    <3>1. act # i
      <4>1. Opened(h) = Opened(c)
        BY <2>4, Zenon DEF Opened
      <4> QED BY <1>1, <1>4, <1>6, <2>6, <4>1, Zenon DEF ActiveView
    <3>2. k = IF i < act THEN act - 1 ELSE act
      BY <1>4, <1>5, <1>6, <1>7, <2>1, <3>1 DEF AfterClose
    <3>3. k + 1 \in 1 .. Count(c)
      BY <1>5, <2>2
    <3>4. h.browser.tabs[k + 1] = g.browser.tabs[act + 1]
      <4>1. CASE i < act
        <5>1. ~(k + 1 < i + 1) /\ (k + 1) + 1 = act + 1
          BY <1>6, <3>2, <4>1
        <5> QED BY <1>4, <2>4, <3>3, <5>1
      <4>2. CASE ~(i < act)
        <5>1. k + 1 < i + 1 /\ k + 1 = act + 1
          BY <1>6, <3>1, <3>2, <4>2
        <5> QED BY <1>4, <2>4, <3>3, <5>1
      <4> QED BY <4>1, <4>2
    <3> QED BY <1>6, <2>4, <3>4, Zenon DEF ActiveView
  <2> QED BY <2>4, <2>5, <2>6, Zenon DEF After
<1> QED BY <1>9, <1>10


-----------------------------------------------------------------------------
(* What WebKit finds in the keymap for a key the browser translated.       *)

\* The tables are over the scancodes up to 0x58.
LEMMA Tables ==
  /\ DOMAIN plain = 0 .. 88 /\ DOMAIN shifted = 0 .. 88
<1>1. \A rows : DOMAIN Table(rows) = 0 .. 88
  BY DEF Table
<1>2. DOMAIN plain = 0 .. 88
  BY <1>1 DEF plain
<1>3. DOMAIN shifted = 0 .. 88
  BY <1>1 DEF shifted
<1> QED BY <1>2, <1>3

\* An extended key is told by its scancode and by its keycode, and no other key
\* has that keycode.
LEMMA ExtendedKeys ==
  /\ \A k \in extended_keys : k[1] \in 0 .. 92 /\ k[2] \in 96 .. 126 /\ k[3] \in Nat \ {0}
  /\ \A j, k \in extended_keys : j[1] = k[1] => j = k
  /\ \A j, k \in extended_keys : j[2] = k[2] => j = k
<1>1. \A k \in extended_keys : k[1] \in 0 .. 92 /\ k[2] \in 96 .. 126 /\ k[3] \in Nat \ {0}
  BY DEF extended_keys
<1>2. \A j, k \in extended_keys : j[1] = k[1] => j = k
  BY DEF extended_keys
<1>3. \A j, k \in extended_keys : j[2] = k[2] => j = k
  BY DEF extended_keys
<1> QED BY <1>1, <1>2, <1>3
\* WebKit, asked about a key the browser translated, finds the same keysym, and
\* at the level it was typed.
KeysymFound(keycode, keyval, held) ==
  LET answer == keymap_translate(keycode, held)
  IN  /\ answer.keyval = keyval
      /\ <<keycode, answer.level>> \in keymap_entries_for_keyval(keyval)

\* The level of a key that is not extended is 1 only if it typed the shifted keysym.
PlainLevel(code, keyval) == IF shifted[code] # 0 /\ keyval = shifted[code] THEN 1 ELSE 0

\* The values of keymap_translate's local variables.
Locals(keycode, held, keys, scancode, value, level) ==
  /\ keys = {k \in extended_keys : k[2] + 8 = keycode}
  /\ scancode = IF keys # {} THEN (CHOOSE k \in keys : TRUE)[1] ELSE keycode - 8
  /\ value = orange_key_translate(scancode, keys # {}, held).keyval
  /\ level = IF ~(keys # {}) /\ shifted[scancode] # 0 /\ value = shifted[scancode] THEN 1 ELSE 0
  /\ ~(keycode < 8 \/ value = 0)

\* What keymap_translate answers, given its local variables.
LEMMA Translated ==
  ASSUME NEW keycode, NEW held, NEW keys, NEW scancode, NEW value, NEW level,
         Locals(keycode, held, keys, scancode, value, level)
  PROVE  /\ keymap_translate(keycode, held).keyval = value
         /\ keymap_translate(keycode, held).level = level
<1>1. keymap_translate(keycode, held) =
        [keyval |-> value, level |-> level, consumed |-> IF level = 1 THEN {"shift"} ELSE {}]
  BY Zenon DEF keymap_translate, Locals
<1>2. PICK answer : answer = keymap_translate(keycode, held)
  OBVIOUS
<1>3. answer.keyval = value /\ answer.level = level
  BY <1>1, <1>2
<1> QED BY <1>2, <1>3, Zenon

LEMMA PlainFound ==
  ASSUME NEW code \in DOMAIN plain, NEW held, NEW keyval,
         orange_key_translate(code, FALSE, held) = [keycode |-> code + 8, keyval |-> keyval],
         keyval # 0, keyval = plain[code] \/ (shifted[code] # 0 /\ keyval = shifted[code])
  PROVE  KeysymFound(code + 8, keyval, held)
<1>1. code \in 0 .. 88 /\ code \in DOMAIN shifted
  BY Tables
<1>2. {k \in extended_keys : k[2] + 8 = code + 8} = {}
  BY <1>1, ExtendedKeys
<1>3. /\ code + 8 - 8 = code /\ ~(code + 8 < 8)
  BY <1>1
<1>4. orange_key_translate(code, FALSE, held).keyval = keyval
  <2>1. [keycode |-> code + 8, keyval |-> keyval].keyval = keyval
    BY Zenon
  <2> QED BY <2>1, Zenon
<1>5. /\ keymap_translate(code + 8, held).keyval = keyval
      /\ keymap_translate(code + 8, held).level = PlainLevel(code, keyval)
  <2>1. PICK n : n = code + 8
    OBVIOUS
  <2>2. PICK keys : keys = {k \in extended_keys : k[2] + 8 = n}
    OBVIOUS
  <2>3. PICK level : level = PlainLevel(code, keyval)
    OBVIOUS
  <2>4. keys = {}
    BY <1>2, <2>1, <2>2
  <2>5. code = IF keys # {} THEN (CHOOSE k \in keys : TRUE)[1] ELSE n - 8
    <3>1. code = n - 8
      BY <1>1, <2>1
    <3> QED BY <2>4, <3>1, Zenon
  <2>6. keyval = orange_key_translate(code, keys # {}, held).keyval
    <3>1. (keys # {}) = FALSE
      BY <2>4
    <3> QED BY <1>4, <3>1, Zenon
  <2>7. level = IF ~(keys # {}) /\ shifted[code] # 0 /\ keyval = shifted[code] THEN 1 ELSE 0
    BY <2>3, <2>4, Zenon DEF PlainLevel
  <2>8. ~(n < 8 \/ keyval = 0)
    BY <1>3, <2>1
  <2>9. Locals(n, held, keys, code, keyval, level)
    BY <2>2, <2>5, <2>6, <2>7, <2>8, Zenon DEF Locals
  <2> QED BY <2>1, <2>3, <2>9, Translated, Zenon
<1>6. <<code + 8, PlainLevel(code, keyval)>> \in keymap_entries_for_keyval(keyval)
  <2>1. CASE shifted[code] # 0 /\ keyval = shifted[code]
    BY <1>1, <2>1 DEF PlainLevel, keymap_entries_for_keyval
  <2>2. CASE ~(shifted[code] # 0 /\ keyval = shifted[code])
    BY <1>1, <2>2 DEF PlainLevel, keymap_entries_for_keyval
  <2> QED BY <2>1, <2>2
<1> QED BY <1>5, <1>6, Zenon DEF KeysymFound

LEMMA ExtendedFound ==
  ASSUME NEW key \in extended_keys, NEW held,
         orange_key_translate(key[1], TRUE, held) = [keycode |-> key[2] + 8, keyval |-> key[3]]
  PROVE  KeysymFound(key[2] + 8, key[3], held)
<1>1. key[2] \in 96 .. 126 /\ key[3] # 0 /\ key[2] + 8 \in Nat /\ ~(key[2] + 8 < 8)
  BY ExtendedKeys
<1>2. {k \in extended_keys : k[2] + 8 = key[2] + 8} = {key}
  BY ExtendedKeys
<1>4. (CHOOSE k \in {key} : TRUE) = key
  OBVIOUS
<1>5. orange_key_translate(key[1], TRUE, held).keyval = key[3]
  <2>1. [keycode |-> key[2] + 8, keyval |-> key[3]].keyval = key[3]
    BY Zenon
  <2> QED BY <2>1, Zenon
<1>6. {key} # {}
  OBVIOUS
<1>7. /\ keymap_translate(key[2] + 8, held).keyval = key[3]
      /\ keymap_translate(key[2] + 8, held).level = 0
  <2> DEFINE keys == {k \in extended_keys : k[2] + 8 = key[2] + 8}
  <2>1. keys # {}
    BY <1>2
  <2>2. key[1] = IF keys # {} THEN (CHOOSE k \in keys : TRUE)[1] ELSE key[2] + 8 - 8
    BY <1>2, <1>4, Zenon
  <2>3. key[3] = orange_key_translate(key[1], keys # {}, held).keyval
    <3>1. (keys # {}) = TRUE
      BY <2>1
    <3> QED BY <1>5, <3>1, Zenon
  <2>4. 0 = IF ~(keys # {}) /\ shifted[key[1]] # 0 /\ key[3] = shifted[key[1]] THEN 1 ELSE 0
    BY <2>1, Zenon
  <2>5. ~(key[2] + 8 < 8 \/ key[3] = 0)
    BY <1>1
  <2> HIDE DEF keys
  <2>6. keys = {k \in extended_keys : k[2] + 8 = key[2] + 8}
    BY Zenon DEF keys
  <2>7. Locals(key[2] + 8, held, keys, key[1], key[3], 0)
    BY <2>2, <2>3, <2>4, <2>5, <2>6, Zenon DEF Locals
  <2> QED BY <2>7, Translated, Zenon
<1>8. <<key[2] + 8, 0>> \in keymap_entries_for_keyval(key[3])
  BY DEF keymap_entries_for_keyval
<1> QED BY <1>7, <1>8, Zenon DEF KeysymFound

LEMMA TypedFound ==
  ASSUME NEW code, NEW extended \in BOOLEAN, NEW held, NEW key,
         key = orange_key_translate(code, extended, held), key # Untranslated
  PROVE  KeysymFound(key.keycode, key.keyval, held)
<1>1. CASE extended
  <2> DEFINE keys == {k \in extended_keys : k[1] = code}
  <2>1. keys # {}
    BY <1>1, Zenon DEF orange_key_translate
  <2>2. PICK k \in extended_keys : k[1] = code /\ k = CHOOSE j \in keys : TRUE
    BY <2>1
  <2>3. key = [keycode |-> k[2] + 8, keyval |-> k[3]]
    BY <1>1, <2>1, <2>2, Zenon DEF orange_key_translate
  <2>4. orange_key_translate(k[1], TRUE, held) = [keycode |-> k[2] + 8, keyval |-> k[3]]
    BY <1>1, <2>2, <2>3
  <2>5. key.keycode = k[2] + 8 /\ key.keyval = k[3]
    BY <2>3
  <2> QED BY <2>4, <2>5, ExtendedFound
<1>2. CASE ~extended
  <2>1. code \in DOMAIN plain /\ plain[code] # 0
    BY <1>2, Zenon DEF orange_key_translate
  <2>2. PICK keyval : /\ key = [keycode |-> code + 8, keyval |-> keyval]
                      /\ \/ keyval = plain[code]
                         \/ shifted[code] # 0 /\ keyval = shifted[code]
    BY <1>2, <2>1, Zenon DEF orange_key_translate
  <2>3. keyval # 0
    BY <2>1, <2>2
  <2>4. orange_key_translate(code, FALSE, held) = [keycode |-> code + 8, keyval |-> keyval]
    BY <1>2, <2>2
  <2>5. key.keycode = code + 8 /\ key.keyval = keyval
    BY <2>2
  <2> QED BY <2>1, <2>2, <2>3, <2>4, <2>5, PlainFound
<1> QED BY <1>1, <1>2

\* The key event t can be found again.
FoundBack(t) == t # NoKey => KeysymFound(t.keycode, t.keyval, t.modifiers)

LEMMA NoKeyFound == FoundBack(NoKey)
BY DEF FoundBack

-----------------------------------------------------------------------------
(* Input: what the handlers of an event leave behind.                      *)

LEMMA WithinAfter ==
  ASSUME NEW s, NEW g \in State(s), NEW h, WithinTab(s, g, h)
  PROVE  After(s, g, h) /\ Count(h) = Count(g)
<1>1. h \in State(s) /\ Good(h) /\ SameTabs(g, h) /\ SameBuffers(g, h)
  BY DEF WithinTab
<1>2. Count(h) = Count(g) /\ Count(g) \in Nat
  BY <1>1, TabsAre DEF SameTabs, Count
<1>3. Buffers(g) => Buffers(h)
  BY <1>1, BuffersKept
<1> QED BY <1>1, <1>2, <1>3 DEF After

LEMMA NoneClosedAfter ==
  ASSUME NEW s, NEW g \in State(s), NEW h, NoneClosed(s, g, h)
  PROVE  After(s, g, h)
<1>1. h \in State(s) /\ Good(h) /\ Count(h) >= Count(g) /\ (Buffers(g) => Buffers(h))
  BY DEF NoneClosed
<1>2. Count(h) \in Nat /\ Count(g) \in Nat
  BY <1>1, TabsAre
<1> QED BY <1>1, <1>2 DEF After

LEMMA UnmovedAfter ==
  ASSUME NEW s, NEW g \in State(s), Good(g)
  PROVE  After(s, g, g)
BY Unmoved, WithinAfter

LEMMA AfterChain ==
  ASSUME NEW s, NEW g \in State(s), NEW a, NEW h, NEW t, WithinTab(s, g, a), After(t, a, h)
  PROVE  After(t, g, h)
<1>1. Count(a) = Count(g) /\ After(s, g, a)
  BY WithinAfter
<1>2. ActiveView(a) = ActiveView(g)
  BY Zenon DEF WithinTab, SameTabs, ActiveView
<1>3. Buffers(g) => Buffers(a)
  BY <1>1, Zenon DEF After
<1> QED BY <1>1, <1>2, <1>3, Zenon DEF After

LEMMA ActivateAfter ==
  ASSUME NEW s, NEW g \in State(s), Good(g), NEW i \in Nat, i < Count(g),
         NEW h, h = activate(g, i)
  PROVE  After(s, g, h)
<1>1. Tabs(g)
  BY DEF Good
<1>2. /\ h \in State(s) /\ Good(h) /\ h.browser.tabs = g.browser.tabs /\ SameBuffers(g, h)
  BY <1>1, Activate
<1>3. Count(h) = Count(g) /\ Count(g) \in Nat
  BY <1>2, TabsAre DEF Count
<1>4. Buffers(g) => Buffers(h)
  BY <1>2, BuffersKept
<1> QED BY <1>2, <1>3, <1>4 DEF After

\* A new tab, and the address field ready for typing.
LEMMA OpenAndEdit ==
  ASSUME NEW s, NEW g \in State(s), Good(g), Count(g) # MAX_TABS, HasRoom(g),
         NEW h, h = edit_address(open_tab(g, START_PAGE), TRUE)
  PROVE  After(s, g, h)
<1>1. PICK a : a = open_tab(g, START_PAGE)
  OBVIOUS
<1>2. NoneClosed(s, g, a)
  BY <1>1, OpenTab DEF Good
<1>3. a \in State(s) /\ Good(a)
  BY <1>2, Zenon DEF NoneClosed
<1>4. h = edit_address(a, TRUE)
  BY <1>1
<1>5. WithinTab(s, a, h)
  BY <1>3, <1>4, EditAddress
<1>6. NoneClosed(s, g, h)
  BY <1>2, <1>5, NoneClosedChain
<1> QED BY <1>6, NoneClosedAfter

LEMMA AddressKey ==
  ASSUME NEW s, NEW g \in State(s), Good(g), g.browser.editing, NEW keyval, NEW rest,
         NEW h, h = address_key(g, keyval, rest)
  PROVE  WithinTab(s, g, h)
<1>1. CASE h = navigate(g)
  BY <1>1, Navigate
<1>2. CASE h = LeaveField(g)
  BY <1>2, LeavingField
<1>3. CASE h = draw_toolbar(TypedInto(g, keyval, rest))
  BY <1>3, Typing
<1>4. h \in {navigate(g), LeaveField(g), draw_toolbar(TypedInto(g, keyval, rest))}
  BY Zenon DEF address_key, TypedInto
<1> QED BY <1>1, <1>2, <1>3, <1>4, Zenon

\* How far the Tab key moves.
Step(g, keyval) ==
  IF "shift" \in g.browser.modifiers \/ keyval = ISO_Left_Tab THEN Count(g) - 1 ELSE 1

LEMMA Shortcut ==
  ASSUME NEW s, NEW g \in State(s), Good(g), HasRoom(g), NEW keyval, is_shortcut(g, keyval),
         NEW h, h = shortcut(g, keyval)
  PROVE  After(s, g, h)
<1>1. PICK n : n = Count(g)
  OBVIOUS
<1>2. PICK act \in Nat : act = g.browser.active
  BY Parts, BrowserParts, Zenon
<1>3. n \in Nat \ {0} /\ act < n
  BY <1>1, <1>2, TabsAre DEF Good, InRange
<1>4. CASE h = g
  BY <1>4, UnmovedAfter
<1>5. CASE h = edit_address(g, TRUE)
  <2>1. WithinTab(s, g, h)
    BY <1>5, EditAddress
  <2> QED BY <2>1, WithinAfter
<1>6. CASE Count(g) # MAX_TABS /\ h = edit_address(open_tab(g, START_PAGE), TRUE)
  BY <1>6, OpenAndEdit
<1>7. CASE h = close_tab(g, act)
  BY <1>1, <1>3, <1>7, CloseTab
<1>8. ASSUME NEW step \in {1, n - 1}, h = activate(g, (act + step) % n) PROVE After(s, g, h)
  <2>1. PICK i : i = (act + step) % n
    OBVIOUS
  <2>2. act + step \in Int
    BY <1>3, <1>8
  <2>3. i \in Nat /\ i < n
    BY <1>3, <2>1, <2>2
  <2>4. h = activate(g, i)
    BY <1>8, <2>1
  <2> QED BY <1>1, <2>3, <2>4, ActivateAfter
<1>9. \/ h = g \/ h = edit_address(g, TRUE)
      \/ Count(g) # MAX_TABS /\ h = edit_address(open_tab(g, START_PAGE), TRUE)
      \/ h = close_tab(g, act)
      \/ \E step \in {1, n - 1} : h = activate(g, (act + step) % n)
  <2>1. keyval \in {76, 108} \/ keyval \in {84, 116} \/ keyval \in {87, 119} \/ keyval \in TabKeys
    BY DEF is_shortcut
  <2>2. CASE keyval \in {76, 108}
    <3>1. keyval \notin {84, 116} /\ keyval \notin {87, 119} /\ keyval \notin TabKeys
      BY <2>2 DEF TabKeys, ISO_Left_Tab
    <3> QED BY SMTT(30), <2>2, <3>1 DEF shortcut
  <2>3. CASE keyval \in {84, 116}
    <3>1. keyval \notin {76, 108} /\ keyval \notin {87, 119} /\ keyval \notin TabKeys
      BY <2>3 DEF TabKeys, ISO_Left_Tab
    <3> QED BY <2>3, <3>1, ZenonT(40) DEF shortcut
  <2>4. CASE keyval \in {87, 119}
    <3>1. keyval \notin {76, 108} /\ keyval \notin {84, 116} /\ keyval \notin TabKeys
      BY <2>4 DEF TabKeys, ISO_Left_Tab
    <3>2. h = close_tab(g, g.browser.active)
      BY SMTT(30), <2>4, <3>1 DEF shortcut
    <3> QED BY <1>2, <3>2, Zenon
  <2>5. CASE keyval \in TabKeys
    <3>1. keyval \notin {76, 108} /\ keyval \notin {84, 116} /\ keyval \notin {87, 119}
      BY <2>5 DEF TabKeys, ISO_Left_Tab
    <3>2. h = g \/ h = activate(g, (g.browser.active + Step(g, keyval)) % Count(g))
      BY <2>5, <3>1, Zenon DEF shortcut, Step
    <3>3. Step(g, keyval) \in {1, n - 1}
      BY <1>1 DEF Step
    <3> QED BY <1>1, <1>2, <3>2, <3>3, Zenon
  <2> QED BY <2>1, <2>2, <2>3, <2>4, <2>5
<1> QED BY <1>4, <1>5, <1>6, <1>7, <1>8, <1>9

\* The modifiers and the buttons that are down.
WithModifiers(g, m) == [g EXCEPT !.browser.modifiers = m]
WithButtons(g, held) == [g EXCEPT !.browser.buttons = held]

\* Neither is on the screen.
LEMMA Unseen ==
  ASSUME NEW s, NEW g \in State(s), Good(g), NEW h \in State(s), h.views = g.views,
         h.window = g.window, h.loop = g.loop, SameTabs(g, h),
         h.browser.editing = g.browser.editing, h.browser.address = g.browser.address
  PROVE  WithinTab(s, g, h) /\ (HasRoom(g) => HasRoom(h))
<1>1. Count(h) = Count(g) /\ Opened(h) = Opened(g) /\ ActiveView(h) = ActiveView(g)
  BY Zenon DEF SameTabs, Count, Opened, ActiveView
<1>2. Content(h, ActiveView(h)) = Content(g, ActiveView(g))
  BY <1>1, Zenon DEF Content
<1>3. Fresh(h) = Fresh(g)
  BY <1>1, Zenon DEF Fresh
<1>4. Tabs(h)
  BY <1>1, Zenon DEF Good, Tabs, SameTabs
<1>5. InRange(h)
  BY <1>1, Zenon DEF Good, InRange, SameTabs
<1>6. Shown(h)
  BY <1>1, <1>2, Zenon DEF Good, Shown
<1>7. Focused(h)
  BY <1>1, Zenon DEF Good, Focused
<1>8. Truthful(h)
  <2>1. Truthful(g) /\ h.browser.tabs = g.browser.tabs
    BY Zenon DEF Good, SameTabs
  <2>2. Labelled(h)
    BY <2>1, LabelledAgain DEF Truthful
  <2>3. ToolbarTrue(h) /\ (~h.browser.editing => AddressTrue(h))
    BY <1>1, <2>1, ToolbarAgain, AddressAgain DEF Truthful
  <2> QED BY <2>2, <2>3, Zenon DEF Truthful
<1>9. SameBuffers(g, h)
  BY SameChain
<1> QED BY <1>1, <1>3, <1>4, <1>5, <1>6, <1>7, <1>8, <1>9, Zenon DEF WithinTab, Good, HasRoom

LEMMA SetModifiers ==
  ASSUME NEW s, NEW g \in State(s), Good(g), NEW m \in SUBSET Modifier,
         NEW h, h = WithModifiers(g, m)
  PROVE  WithinTab(s, g, h) /\ (HasRoom(g) => HasRoom(h))
<1>1. h \in State(s)
  BY Zenon DEF WithModifiers, State, BrowserRec
<1>2. /\ h.views = g.views /\ h.window = g.window /\ h.loop = g.loop /\ SameTabs(g, h)
      /\ h.browser.editing = g.browser.editing /\ h.browser.address = g.browser.address
  BY Zenon DEF WithModifiers, State, BrowserRec, SameTabs
<1> QED BY <1>1, <1>2, Unseen

LEMMA SetButtons ==
  ASSUME NEW s, NEW g \in State(s), Good(g), NEW m \in SUBSET Button, NEW h, h = WithButtons(g, m)
  PROVE  WithinTab(s, g, h) /\ (HasRoom(g) => HasRoom(h))
<1>1. h \in State(s)
  BY Zenon DEF WithButtons, State, BrowserRec
<1>2. /\ h.views = g.views /\ h.window = g.window /\ h.loop = g.loop /\ SameTabs(g, h)
      /\ h.browser.editing = g.browser.editing /\ h.browser.address = g.browser.address
  BY Zenon DEF WithButtons, State, BrowserRec, SameTabs
<1> QED BY <1>1, <1>2, Unseen

LEMMA HeldModifiers ==
  ASSUME NEW s, NEW g \in State(s), NEW code, NEW extended, NEW pressed
  PROVE  modifiers(g, code, extended, pressed) \in SUBSET Modifier
<1>1. PICK held \in SUBSET Modifier : held = g.browser.modifiers
  BY Parts, BrowserParts
<1>2. PICK m : m = orange_key_modifier(code, extended)
  OBVIOUS
<1>3. m \in SUBSET Modifier
  BY <1>2 DEF orange_key_modifier, Modifier
<1>4. modifiers(g, code, extended, pressed) \in
        {held \cup m, held \ m, held \ {"caps"}, held \cup {"caps"}, held}
  BY <1>1, <1>2 DEF modifiers
<1> QED BY <1>1, <1>3, <1>4 DEF Modifier

\* Whether a state is good does not depend on the loop, nor on the key passed on.
LEMMA SameState ==
  ASSUME NEW g, NEW h, h.browser = g.browser, h.views = g.views, h.window = g.window
  PROVE  /\ Good(g) => Good(h)
         /\ Buffers(g) => Buffers(h)
         /\ Count(h) = Count(g) /\ Opened(h) = Opened(g) /\ ActiveView(h) = ActiveView(g)
<1>1. Count(h) = Count(g) /\ Opened(h) = Opened(g) /\ ActiveView(h) = ActiveView(g)
  BY Zenon DEF Count, Opened, ActiveView
<1>2. Content(h, ActiveView(h)) = Content(g, ActiveView(g))
  BY <1>1, Zenon DEF Content
<1>3. Tabs(g) => Tabs(h)
  BY <1>1, Zenon DEF Tabs
<1>4. InRange(g) => InRange(h)
  BY <1>1, Zenon DEF InRange
<1>5. Shown(g) => Shown(h)
  BY <1>1, <1>2, Zenon DEF Shown
<1>6. Focused(g) => Focused(h)
  BY <1>1, Zenon DEF Focused
<1>7. Truthful(g) => Truthful(h)
  BY <1>1, Zenon DEF Truthful, Labelled, ToolbarTrue, AddressTrue
<1>8. Buffers(g) => Buffers(h)
  BY Zenon DEF Buffers
<1> QED BY <1>1, <1>3, <1>4, <1>5, <1>6, <1>7, <1>8, Zenon DEF Good

\* A key goes to the page in view.
Sent(g, k) == [g EXCEPT !.sent = k]

LEMMA SentAfter ==
  ASSUME NEW s, NEW g \in State(s), Good(g), NEW k, NEW h, h = Sent(g, k)
  PROVE  After(k, g, h)
<1>1. h \in State(k)
  BY Zenon DEF Sent, State
<1>2. h.browser = g.browser /\ h.views = g.views /\ h.window = g.window
  BY Zenon DEF Sent, State
<1>3. Good(h) /\ Count(h) = Count(g) /\ ActiveView(h) = ActiveView(g)
  BY <1>2, SameState
<1>4. Buffers(g) => Buffers(h)
  BY <1>2, SameState
<1> QED BY <1>1, <1>3, <1>4, Zenon DEF After

\* What a key the browser keeps does once the modifiers are known.
LEMMA KeyDoes ==
  ASSUME NEW s, NEW g \in State(s), Good(g), HasRoom(g), NEW rest, NEW h, NEW keyval,
         \/ h = g
         \/ is_shortcut(g, keyval) /\ h = shortcut(g, keyval)
         \/ g.browser.editing /\ h = address_key(g, keyval, rest)
  PROVE  After(s, g, h)
<1>1. CASE h = g
  BY <1>1, UnmovedAfter
<1>2. CASE is_shortcut(g, keyval) /\ h = shortcut(g, keyval)
  BY <1>2, Shortcut
<1>3. CASE g.browser.editing /\ h = address_key(g, keyval, rest)
  <2>1. WithinTab(s, g, h)
    BY <1>3, AddressKey
  <2> QED BY <2>1, WithinAfter
<1> QED BY <1>1, <1>2, <1>3, Zenon

LEMMA HandleKey ==
  ASSUME NEW s, NEW g \in State(s), Good(g), HasRoom(g), NEW code, NEW extended \in BOOLEAN,
         NEW pressed,
         NEW rest, NEW h, h = handle_key(g, code, extended, pressed, rest)
  PROVE  \E t : After(t, g, h) /\ (t = s \/ FoundBack(t))
<1>1. PICK m : m = modifiers(g, code, extended, pressed)
  OBVIOUS
<1>2. m \in SUBSET Modifier
  BY <1>1, HeldModifiers
<1>3. PICK a : a = WithModifiers(g, m)
  OBVIOUS
<1>4. WithinTab(s, g, a) /\ HasRoom(a)
  BY <1>2, <1>3, SetModifiers
<1>5. a \in State(s) /\ Good(a)
  BY <1>4, Zenon DEF WithinTab
<1>6. PICK key : key = orange_key_translate(code, extended, a.browser.modifiers)
  OBVIOUS
<1>7. PICK k : k = [view |-> ActiveView(a), keycode |-> key.keycode,
                    keyval |-> key.keyval, modifiers |-> a.browser.modifiers]
  OBVIOUS
<1>8. \/ h = a
      \/ is_shortcut(a, key.keyval) /\ h = shortcut(a, key.keyval)
      \/ a.browser.editing /\ h = address_key(a, key.keyval, rest)
      \/ h = Sent(a, k) /\ key # Untranslated
  BY <1>1, <1>3, <1>6, <1>7, Zenon DEF handle_key, WithModifiers, Sent
<1>9. \/ After(s, a, h)
      \/ After(k, a, h) /\ key # Untranslated
  <2>1. CASE h = Sent(a, k) /\ key # Untranslated
    BY <1>5, <2>1, SentAfter
  <2>2. CASE h # Sent(a, k) \/ key = Untranslated
    BY <1>4, <1>5, <1>8, <2>2, KeyDoes, Zenon
  <2> QED BY <2>1, <2>2
<1>10. \/ After(s, g, h)
       \/ After(k, g, h) /\ key # Untranslated
  BY <1>4, <1>9, AfterChain
<1>11. key # Untranslated => FoundBack(k)
  <2> SUFFICES ASSUME key # Untranslated PROVE FoundBack(k)
    OBVIOUS
  <2>1. KeysymFound(key.keycode, key.keyval, a.browser.modifiers)
    BY <1>6, TypedFound
  <2>2. /\ k.keycode = key.keycode /\ k.keyval = key.keyval
        /\ k.modifiers = a.browser.modifiers
    BY <1>7, Zenon
  <2> QED BY <2>1, <2>2, Zenon DEF FoundBack
<1> QED BY <1>10, <1>11

LEMMA TabbarClick ==
  ASSUME NEW s, NEW g \in State(s), Good(g), HasRoom(g), NEW x, NEW h, h = tabbar_click(g, x)
  PROVE  After(s, g, h)
<1> DEFINE hit == {i \in 0 .. Count(g) - 1 : x >= tab_x(g, i) /\ x < tab_x(g, i) + tab_width(g) - 4}
           i == CHOOSE j \in hit : TRUE
<1>1. \/ hit # {} /\ h = close_tab(g, i)
      \/ hit # {} /\ h = activate(g, i)
      \/ Count(g) < MAX_TABS /\ h = edit_address(open_tab(g, START_PAGE), TRUE)
      \/ h = g
  BY Zenon DEF tabbar_click
<1>2. ASSUME hit # {} PROVE i \in Nat /\ i < Count(g)
  <2>1. i \in hit
    BY <1>2, Zenon
  <2>2. i \in 0 .. Count(g) - 1
    BY <2>1, Zenon
  <2> HIDE DEF i
  <2> QED BY <2>2, TabsAre
<1> HIDE DEF hit, i
<1>3. CASE hit # {} /\ h = close_tab(g, i)
  BY <1>2, <1>3, CloseTab
<1>4. CASE hit # {} /\ h = activate(g, i)
  BY <1>2, <1>4, ActivateAfter
<1>5. CASE Count(g) < MAX_TABS /\ h = edit_address(open_tab(g, START_PAGE), TRUE)
  <2>1. Count(g) # MAX_TABS
    BY <1>5, BrowserAssumption, TabsAre
  <2> QED BY <1>5, <2>1, OpenAndEdit
<1>6. CASE h = g
  BY <1>6, UnmovedAfter
<1> QED BY <1>1, <1>3, <1>4, <1>5, <1>6, Zenon

LEMMA ToolbarClick ==
  ASSUME NEW s, NEW g \in State(s), Good(g), NEW x, NEW h, h = toolbar_click(g, x)
  PROVE  After(s, g, h)
<1>1. h = g \/ h = edit_address(g, FALSE)
  BY Zenon DEF toolbar_click
<1>2. CASE h = g
  BY <1>2, UnmovedAfter
<1>3. CASE h = edit_address(g, FALSE)
  <2>1. WithinTab(s, g, h)
    BY <1>3, EditAddress
  <2> QED BY <2>1, WithinAfter
<1> QED BY <1>1, <1>2, <1>3

LEMMA HandleMouse ==
  ASSUME NEW s, NEW g \in State(s), Good(g), HasRoom(g), NEW area \in {"strip", "toolbar", "page"},
         NEW x, NEW held \in SUBSET Button, NEW h, h = handle_mouse(g, area, x, held)
  PROVE  After(s, g, h)
<1>1. PICK a : a = WithButtons(g, held)
  OBVIOUS
<1>2. WithinTab(s, g, a) /\ HasRoom(a)
  BY <1>1, SetButtons
<1>3. a \in State(s) /\ Good(a)
  BY <1>2, Zenon DEF WithinTab
<1>4. h = a \/ h = tabbar_click(a, x) \/ h = toolbar_click(a, x) \/ h = content_click(a)
  <2>1. CASE area = "strip"
    BY <1>1, <2>1, Zenon DEF handle_mouse, WithButtons
  <2>2. CASE area = "toolbar"
    BY <1>1, <2>2, Zenon DEF handle_mouse, WithButtons
  <2>3. CASE area = "page"
    BY <1>1, <2>3, Zenon DEF handle_mouse, WithButtons
  <2> QED BY <2>1, <2>2, <2>3
<1>5. CASE h = a
  BY <1>2, <1>5, WithinAfter
<1>6. CASE h = tabbar_click(a, x)
  <2>1. After(s, a, h)
    BY <1>2, <1>3, <1>6, TabbarClick
  <2> QED BY <1>2, <2>1, AfterChain
<1>7. CASE h = toolbar_click(a, x)
  <2>1. After(s, a, h)
    BY <1>3, <1>7, ToolbarClick
  <2> QED BY <1>2, <2>1, AfterChain
<1>8. CASE h = content_click(a)
  <2>1. WithinTab(s, a, h)
    BY <1>3, <1>8, ContentClick
  <2>2. After(s, a, h)
    BY <1>3, <2>1, WithinAfter
  <2> QED BY <1>2, <2>2, AfterChain
<1> QED BY <1>4, <1>5, <1>6, <1>7, <1>8

-----------------------------------------------------------------------------
(* WebKit: frames, progress and loads.                                     *)

\* One view gets another record, and the rest of the program stays.
PutView(g, v, r) == [g EXCEPT !.views[v] = r]
OneView(s, g, h, v) ==
  /\ h \in State(s) /\ h.browser = g.browser /\ h.loop = g.loop
  /\ \A w \in View \ {v} : h.views[w] = g.views[w]

LEMMA SetView ==
  ASSUME NEW s, NEW g \in State(s), NEW v \in View, NEW r \in ViewRec,
         NEW h, h = PutView(g, v, r)
  PROVE  OneView(s, g, h, v) /\ h.window = g.window /\ h.views[v] = r
<1>1. h \in State(s)
  BY Zenon DEF PutView, State
<1>2. h.browser = g.browser /\ h.loop = g.loop /\ h.window = g.window
  BY Zenon DEF PutView, State
<1>3. h.views[v] = r /\ \A w \in View \ {v} : h.views[w] = g.views[w]
  BY Zenon DEF PutView, State
<1> QED BY <1>1, <1>2, <1>3, Zenon DEF OneView

LEMMA OneViewChain ==
  ASSUME NEW s, NEW v, NEW a, NEW b, NEW c, OneView(s, a, b, v), OneView(s, b, c, v)
  PROVE  OneView(s, a, c, v)
BY Zenon DEF OneView

\* What a frame leaves alone in a view.
SameFace(r, q) ==
  /\ q.active = r.active /\ q.focus = r.focus /\ q.uri = r.uri /\ q.progress = r.progress
  /\ q.title = r.title

LEMMA FrameGood ==
  ASSUME NEW s, NEW g \in State(s), Good(g), NEW v \in View, NEW h, OneView(s, g, h, v),
         SameFace(g.views[v], h.views[v]),
         h.window.strip = g.window.strip, h.window.bar = g.window.bar,
         v = ActiveView(g) => h.window.content = Content(h, v),
         v # ActiveView(g) => h.window.content = g.window.content
  PROVE  Good(h)
<1>a. PICK u : u = ActiveView(g)
  OBVIOUS
<1>0. Tabs(g) /\ InRange(g) /\ Shown(g) /\ Focused(g) /\ Truthful(g)
  BY DEF Good
<1>u. u \in View
  BY <1>a, <1>0, ActiveIs
<1>1. h \in State(s) /\ h.browser = g.browser /\ \A w \in View \ {v} : h.views[w] = g.views[w]
  BY DEF OneView
<1>2. \A w \in View : SameFace(g.views[w], h.views[w])
  BY <1>1, Zenon DEF SameFace
<1>3. Count(h) = Count(g) /\ Opened(h) = Opened(g) /\ ActiveView(h) = u /\ Opened(g) \subseteq View
  BY <1>a, <1>1, TabsAre DEF Count, Opened, ActiveView
<1>4. Tabs(h)
  BY <1>0, <1>1, <1>2, <1>3, Zenon DEF Tabs, SameFace
<1>5. InRange(h)
  BY <1>0, <1>1, <1>3, Zenon DEF InRange
<1>6. Shown(h)
  <2>1. h.window.content = Content(h, u)
    <3>1. CASE v = u
      BY <1>a, <3>1
    <3>2. CASE v # u
      <4>1. h.views[u] = g.views[u]
        BY <1>1, <1>u, <3>2
      <4>2. h.window.content = Content(g, u)
        BY <1>a, <1>0, <3>2, Zenon DEF Shown
      <4> QED BY <4>1, <4>2, Zenon DEF Content
    <3> QED BY <3>1, <3>2
  <2>2. \A w \in View : h.views[w].active <=> w = u
    BY <1>a, <1>0, <1>2, Zenon DEF Shown, SameFace
  <2> QED BY <1>3, <2>1, <2>2, Zenon DEF Shown
<1>7. Focused(h)
  <2>1. \A w \in Opened(g) : h.views[w].focus = g.views[w].focus
    BY <1>2, <1>3 DEF SameFace
  <2> QED BY <1>a, <1>0, <1>1, <1>3, <2>1, Zenon DEF Focused
<1>8. Truthful(h)
  <2>1. h.views[u].uri = g.views[u].uri /\ h.views[u].progress = g.views[u].progress
    BY <1>2, <1>u DEF SameFace
  <2>2. Labelled(h)
    <3>1. \A w \in Opened(g) : h.views[w].title = g.views[w].title
      BY <1>2, <1>3 DEF SameFace
    <3> QED BY <1>0, <1>1, <3>1, LabelledAgain, Zenon DEF Truthful, SameTabs
  <2>3. ToolbarTrue(h)
    BY <1>a, <1>0, <1>1, <1>3, <2>1, ToolbarAgain, Zenon DEF Truthful
  <2>4. ~h.browser.editing => AddressTrue(h)
    BY <1>a, <1>0, <1>1, <1>3, <2>1, AddressAgain, Zenon DEF Truthful
  <2> QED BY <2>2, <2>3, <2>4 DEF Truthful
<1> QED BY <1>4, <1>5, <1>6, <1>7, <1>8 DEF Good

\* The view's picture, the buffer in its hands, the buffer given back.
LEMMA NextFrame ==
  ASSUME NEW r \in ViewRec, NEW q, q = [r EXCEPT !.frame = 1 + (@ % 2)]
  PROVE  /\ q \in ViewRec /\ SameFace(r, q)
         /\ q.lent = r.lent /\ q.shown = r.shown /\ q.idle = r.idle
<1>1. PICK f : f = 1 + (r.frame % 2)
  OBVIOUS
<1>2. f \in 0 .. 2
  <2>1. r.frame \in Nat
    BY ViewParts
  <2>2. r.frame % 2 \in 0 .. 1
    BY <2>1
  <2> QED BY <1>1, <2>2
<1>3. q = [r EXCEPT !.frame = f]
  BY <1>1, Zenon
<1>4. q \in ViewRec
  BY <1>2, <1>3, Zenon DEF ViewRec
<1> QED BY <1>3, <1>4, Zenon DEF ViewRec, SameFace

Lent(r, b) == [r EXCEPT !.lent = @ \cup {b}]

LEMMA LentTo ==
  ASSUME NEW r \in ViewRec, NEW b \in Buffer, NEW q, q = Lent(r, b)
  PROVE  /\ q \in ViewRec /\ SameFace(r, q) /\ q.frame = r.frame
         /\ q.lent = r.lent \cup {b} /\ q.shown = r.shown /\ q.idle = r.idle
<1>1. PICK l : l = r.lent \cup {b}
  OBVIOUS
<1>2. l \in SUBSET Buffer
  BY <1>1, ViewParts
<1>3. q = [r EXCEPT !.lent = l]
  BY <1>1, Zenon DEF Lent
<1>4. q \in ViewRec
  BY <1>2, <1>3, Zenon DEF ViewRec
<1> QED BY <1>1, <1>3, <1>4, Zenon DEF ViewRec, SameFace

LEMMA Given ==
  ASSUME NEW r \in ViewRec, NEW q, q = [r EXCEPT !.lent = @ \ {r.shown}, !.shown = NoBuffer]
  PROVE  /\ q \in ViewRec /\ SameFace(r, q) /\ q.frame = r.frame
         /\ q.lent = r.lent \ {r.shown} /\ q.shown = NoBuffer /\ q.idle = r.idle
<1>1. PICK l : l = r.lent \ {r.shown}
  OBVIOUS
<1>2. l \in SUBSET Buffer
  BY <1>1, ViewParts
<1>3. q = [r EXCEPT !.lent = l, !.shown = NoBuffer]
  BY <1>1, Zenon
<1>4. q \in ViewRec
  BY <1>2, <1>3, Zenon DEF ViewRec
<1> QED BY <1>1, <1>3, <1>4, Zenon DEF ViewRec, SameFace

Taken(r, b) == [r EXCEPT !.shown = b, !.idle = @ + 1]

LEMMA TakenBy ==
  ASSUME NEW r \in ViewRec, NEW b \in Buffer, NEW q, q = Taken(r, b)
  PROVE  /\ q \in ViewRec /\ SameFace(r, q) /\ q.frame = r.frame
         /\ q.lent = r.lent /\ q.shown = b /\ q.idle > 0
<1>1. PICK n : n = r.idle + 1
  OBVIOUS
<1>2. n \in Nat /\ n > 0
  BY <1>1, ViewParts
<1>3. q = [r EXCEPT !.shown = b, !.idle = n]
  BY <1>1, Zenon DEF Taken
<1>4. q \in ViewRec
  BY <1>2, <1>3, Zenon DEF ViewRec
<1>5. SameFace(r, q) /\ q.frame = r.frame /\ q.lent = r.lent /\ q.shown = b /\ q.idle = n
  BY <1>3, <1>4, Zenon DEF ViewRec, SameFace
<1> QED BY <1>2, <1>4, <1>5

LEMMA Idled ==
  ASSUME NEW r \in ViewRec, r.idle > 0, NEW q, q = [r EXCEPT !.idle = @ - 1]
  PROVE  /\ q \in ViewRec /\ SameFace(r, q) /\ q.frame = r.frame
         /\ q.lent = r.lent /\ q.shown = r.shown
<1>1. PICK n : n = r.idle - 1
  OBVIOUS
<1>2. n \in Nat
  BY <1>1, ViewParts
<1>3. q = [r EXCEPT !.idle = n]
  BY <1>1, Zenon
<1>4. q \in ViewRec
  BY <1>2, <1>3, Zenon DEF ViewRec
<1> QED BY <1>3, <1>4, Zenon DEF ViewRec, SameFace

\* What a step on one view leaves behind: the tabs are what they were.
LEMMA QuietAfter ==
  ASSUME NEW s, NEW g \in State(s), NEW h \in State(s), h.browser = g.browser,
         Good(g) => Good(h), Buffers(g) => Buffers(h), Count(g) > 0 => Good(g)
  PROVE  After(s, g, h)
<1>1. Count(h) = Count(g) /\ ActiveView(h) = ActiveView(g)
  BY Zenon DEF Count, ActiveView
<1> QED BY <1>1, Zenon DEF After

\* view_render_buffer, from its first picture to its last.
Framed(g, v) == [g EXCEPT !.views[v].frame = 1 + (@ % 2)]
Lend(g, v, b) == [g EXCEPT !.views[v].lent = @ \cup {b}]
Take(g, v, b) == [g EXCEPT !.views[v].shown = b, !.views[v].idle = @ + 1]
Rendered(g, v, b) ==
  Take(ReleasePrevious(Lend(DrawsActive(Framed(g, v), v), v, b), v), v, b)

LEMMA GivenBack ==
  ASSUME NEW s, NEW g \in State(s), NEW v \in View, NEW h, h = GiveBack(g, v)
  PROVE  /\ OneView(s, g, h, v) /\ h.window = g.window
         /\ h.views[v] \in ViewRec /\ SameFace(g.views[v], h.views[v])
         /\ h.views[v].frame = g.views[v].frame /\ h.views[v].idle = g.views[v].idle
         /\ h.views[v].lent = g.views[v].lent \ {g.views[v].shown} /\ h.views[v].shown = NoBuffer
<1>1. PICK r : r = g.views[v]
  OBVIOUS
<1>2. PICK q : q = [r EXCEPT !.lent = @ \ {r.shown}, !.shown = NoBuffer]
  OBVIOUS
<1>3. r \in ViewRec
  BY <1>1, ViewOf
<1>4. /\ q \in ViewRec /\ SameFace(r, q) /\ q.frame = r.frame
      /\ q.lent = r.lent \ {r.shown} /\ q.shown = NoBuffer /\ q.idle = r.idle
  BY <1>2, <1>3, Given, Zenon
<1>5. h = PutView(g, v, q)
  BY <1>1, <1>2, Zenon DEF GiveBack, PutView
<1>6. OneView(s, g, h, v) /\ h.window = g.window /\ h.views[v] = q
  BY <1>4, <1>5, SetView
<1> QED BY <1>1, <1>4, <1>6, Zenon

LEMMA Faces ==
  ASSUME NEW a, NEW b, NEW c, SameFace(a, b), SameFace(b, c)
  PROVE  SameFace(a, c)
BY Zenon DEF SameFace

\* A picture is drawn, when it is the active view's.
LEMMA Pictured ==
  ASSUME NEW s, NEW g \in State(s), NEW v \in View,
         NEW h, h = DrawsActive(Framed(g, v), v)
  PROVE  /\ OneView(s, g, h, v) /\ h.views[v] \in ViewRec /\ SameFace(g.views[v], h.views[v])
         /\ h.views[v].lent = g.views[v].lent /\ h.views[v].shown = g.views[v].shown
         /\ h.window.strip = g.window.strip /\ h.window.bar = g.window.bar
         /\ h.window.content = IF g.views[v].active THEN Content(h, v) ELSE g.window.content
<1>1. PICK r : r = g.views[v]
  OBVIOUS
<1>2. PICK q : q = [r EXCEPT !.frame = 1 + (@ % 2)]
  OBVIOUS
<1>3. r \in ViewRec
  BY <1>1, ViewOf
<1>4. /\ q \in ViewRec /\ SameFace(r, q)
      /\ q.lent = r.lent /\ q.shown = r.shown /\ q.idle = r.idle
  BY <1>2, <1>3, NextFrame, Zenon
<1>5. PICK a : a = PutView(g, v, q)
  OBVIOUS
<1>6. OneView(s, g, a, v) /\ a.window = g.window /\ a.views[v] = q
  BY <1>4, <1>5, SetView
<1>7. a \in State(s) /\ (a.views[v].active <=> g.views[v].active)
  BY <1>1, <1>4, <1>6, Zenon DEF OneView, SameFace
<1>8. h = DrawsActive(a, v)
  <2>1. a = Framed(g, v)
    BY <1>1, <1>2, <1>5, Zenon DEF PutView, Framed
  <2> QED BY <2>1
<1>9. CASE g.views[v].active
  <2>1. h = view_show_frame(a, v)
    BY <1>7, <1>8, <1>9, Zenon DEF DrawsActive
  <2>2. /\ h \in State(s) /\ h.browser = a.browser /\ h.views = a.views /\ h.loop = a.loop
        /\ h.window.strip = a.window.strip
        /\ h.window.content = Content(a, v) /\ h.window.bar = a.window.bar
    BY <1>7, <2>1, ShowFrame
  <2>3. Content(h, v) = Content(a, v)
    BY <2>2, Zenon DEF Content
  <2>4. OneView(s, g, h, v)
    BY <1>6, <2>2, Zenon DEF OneView
  <2> QED BY <1>1, <1>4, <1>6, <1>9, <2>2, <2>3, <2>4, Zenon
<1>10. CASE ~g.views[v].active
  <2>1. h = a
    BY <1>7, <1>8, <1>10, Zenon DEF DrawsActive
  <2> QED BY <1>1, <1>4, <1>6, <1>10, <2>1, Zenon
<1> QED BY <1>9, <1>10

LEMMA RenderBuffer ==
  ASSUME NEW s, NEW g \in State(s), NEW v \in View, NEW b \in Buffer, b \notin g.views[v].lent,
         Buffers(g), NEW h, h = Rendered(g, v, b)
  PROVE  /\ OneView(s, g, h, v) /\ Buffers(h) /\ SameFace(g.views[v], h.views[v])
         /\ h.window.strip = g.window.strip /\ h.window.bar = g.window.bar
         /\ h.window.content = IF g.views[v].active THEN Content(h, v) ELSE g.window.content
<1>1. PICK f : f = DrawsActive(Framed(g, v), v)
  OBVIOUS
<1>2. /\ OneView(s, g, f, v) /\ f.views[v] \in ViewRec /\ SameFace(g.views[v], f.views[v])
      /\ f.views[v].lent = g.views[v].lent /\ f.views[v].shown = g.views[v].shown
      /\ f.window.strip = g.window.strip /\ f.window.bar = g.window.bar
      /\ f.window.content = IF g.views[v].active THEN Content(f, v) ELSE g.window.content
  BY <1>1, Pictured
<1>r. PICK r \in ViewRec : r = f.views[v]
  BY <1>2
<1>3. PICK q : q = Lent(r, b)
  OBVIOUS
<1>4. /\ q \in ViewRec /\ SameFace(f.views[v], q) /\ q.frame = f.views[v].frame
      /\ q.lent = f.views[v].lent \cup {b} /\ q.shown = f.views[v].shown
  <2>1. /\ q \in ViewRec /\ SameFace(r, q) /\ q.frame = r.frame
        /\ q.lent = r.lent \cup {b} /\ q.shown = r.shown
    BY <1>3, LentTo
  <2> QED BY <1>r, <2>1
<1>5. PICK l : l = PutView(f, v, q)
  OBVIOUS
<1>6. OneView(s, f, l, v) /\ l.window = f.window /\ l.views[v] = q /\ l \in State(s)
  <2>1. f \in State(s)
    BY <1>2, Zenon DEF OneView
  <2>2. OneView(s, f, l, v) /\ l.window = f.window /\ l.views[v] = q
    BY <1>4, <1>5, <2>1, SetView
  <2> QED BY <2>2, Zenon DEF OneView
<1>7. PICK c : c = ReleasePrevious(l, v)
  OBVIOUS
<1>8. /\ OneView(s, l, c, v) /\ c.window = l.window /\ c \in State(s)
      /\ c.views[v] \in ViewRec /\ SameFace(q, c.views[v]) /\ c.views[v].frame = q.frame
      /\ c.views[v].lent = {b}
  <2>1. Returned(g.views[v]) /\ NoBuffer \notin Buffer
    BY BrowserAssumption DEF Buffers, NoBuffer
  <2>2. /\ q.lent = ({q.shown} \ {NoBuffer}) \cup {b} /\ b # NoBuffer
        /\ q.shown # NoBuffer => b # q.shown
    BY <1>2, <1>4, <2>1 DEF Returned
  <2>3. CASE q.shown = NoBuffer
    <3>1. c = l
      BY <1>6, <1>7, <2>3, Zenon DEF ReleasePrevious
    <3>2. q.lent = {b}
      BY <2>2, <2>3
    <3>3. OneView(s, l, l, v)
      BY <1>6, Zenon DEF OneView
    <3> QED BY <1>4, <1>6, <3>1, <3>2, <3>3, Zenon DEF SameFace
  <2>4. CASE q.shown # NoBuffer
    <3>1. c = GiveBack(l, v)
      BY <1>6, <1>7, <2>4, Zenon DEF ReleasePrevious
    <3>2. /\ OneView(s, l, c, v) /\ c.window = l.window
          /\ c.views[v] \in ViewRec /\ SameFace(l.views[v], c.views[v])
          /\ c.views[v].frame = l.views[v].frame
          /\ c.views[v].lent = l.views[v].lent \ {l.views[v].shown}
      BY <1>6, <3>1, GivenBack
    <3>3. q.lent \ {q.shown} = {b}
      BY <2>2, <2>4
    <3>4. c \in State(s)
      BY <3>2, Zenon DEF OneView
    <3> QED BY <1>6, <3>2, <3>3, <3>4, Zenon
  <2> QED BY <2>3, <2>4
<1>t. PICK y \in ViewRec : y = c.views[v]
  BY <1>8
<1>9. PICK z : z = Taken(y, b)
  OBVIOUS
<1>10. /\ z \in ViewRec /\ SameFace(c.views[v], z) /\ z.frame = c.views[v].frame
       /\ z.lent = c.views[v].lent /\ z.shown = b /\ z.idle > 0
  <2>1. /\ z \in ViewRec /\ SameFace(y, z) /\ z.frame = y.frame
        /\ z.lent = y.lent /\ z.shown = b /\ z.idle > 0
    BY <1>9, TakenBy
  <2> QED BY <1>t, <2>1
<1>11. h = PutView(c, v, z)
  <2>1. l = Lend(f, v, b)
    BY <1>3, <1>5, <1>r, Zenon DEF PutView, Lend, Lent
  <2>2. h = Take(c, v, b)
    BY <1>1, <1>7, <2>1, Zenon DEF Rendered
  <2>3. Take(c, v, b) = PutView(c, v, z)
    BY <1>9, <1>t, Zenon DEF PutView, Take, Taken
  <2> QED BY <2>2, <2>3
<1>12. OneView(s, c, h, v) /\ h.window = c.window /\ h.views[v] = z
  BY <1>8, <1>10, <1>11, SetView
<1>13. OneView(s, g, h, v)
  <2>1. OneView(s, g, l, v)
    BY <1>2, <1>6, OneViewChain
  <2>2. OneView(s, g, c, v)
    BY <1>8, <2>1, OneViewChain
  <2> QED BY <1>12, <2>2, OneViewChain
<1>14. SameFace(g.views[v], h.views[v])
  <2>1. SameFace(g.views[v], q)
    BY <1>2, <1>4, Faces
  <2>2. SameFace(g.views[v], c.views[v])
    BY <1>8, <2>1, Faces
  <2> QED BY <1>10, <1>12, <2>2, Faces
<1>15. Buffers(h)
  <2>1. Returned(z)
    <3>1. z.lent = {b} /\ b # NoBuffer
      BY <1>8, <1>10, BrowserAssumption DEF NoBuffer
    <3> QED BY <1>10, <3>1 DEF Returned
  <2>2. \A w \in View \ {v} : h.views[w] = g.views[w]
    BY <1>13, Zenon DEF OneView
  <2> QED BY <1>12, <2>1, <2>2, Zenon DEF Buffers
<1>16. h.window = f.window
  BY <1>6, <1>8, <1>12, Zenon
<1>17. Content(h, v) = Content(f, v)
  <2>1. h.views[v].frame = f.views[v].frame
    BY <1>4, <1>8, <1>10, <1>12, Zenon
  <2> QED BY <2>1, Zenon DEF Content
<1> QED BY <1>2, <1>13, <1>14, <1>15, <1>16, <1>17, Zenon

\* view_release, before the view may go.
Finished(g, v) == [g EXCEPT !.views[v].idle = @ - 1]
Freed(g, v) == Finished(IF g.views[v].shown = NoBuffer THEN g ELSE GiveBack(g, v), v)

LEMMA ReleaseBuffer ==
  ASSUME NEW s, NEW g \in State(s), NEW v \in View, g.views[v].idle > 0,
         Buffers(g), NEW h, h = Freed(g, v)
  PROVE  /\ OneView(s, g, h, v) /\ Buffers(h) /\ SameFace(g.views[v], h.views[v])
         /\ h.window = g.window /\ h.views[v].frame = g.views[v].frame
<1>1. PICK a : a = IF g.views[v].shown = NoBuffer THEN g ELSE GiveBack(g, v)
  OBVIOUS
<1>2. /\ OneView(s, g, a, v) /\ a.window = g.window
      /\ SameFace(g.views[v], a.views[v]) /\ a.views[v].frame = g.views[v].frame
      /\ a.views[v].idle = g.views[v].idle
      /\ a.views[v].lent = g.views[v].lent \ {g.views[v].shown} /\ a.views[v].shown = NoBuffer
  <2>1. CASE g.views[v].shown = NoBuffer
    <3>1. a = g
      BY <1>1, <2>1, Zenon
    <3>2. g.views[v].lent = {}
      BY <2>1 DEF Buffers, Returned
    <3>3. g.views[v].lent = g.views[v].lent \ {g.views[v].shown}
      BY <3>2
    <3> QED BY <2>1, <3>1, <3>3, Zenon DEF OneView, SameFace
  <2>2. CASE g.views[v].shown # NoBuffer
    <3>1. a = GiveBack(g, v)
      BY <1>1, <2>2, Zenon
    <3> QED BY <3>1, GivenBack
  <2> QED BY <2>1, <2>2
<1>3. a \in State(s)
  BY <1>2, Zenon DEF OneView
<1>4. PICK r \in ViewRec : r = a.views[v]
  BY <1>3, ViewOf
<1>5. PICK q : q = [r EXCEPT !.idle = @ - 1]
  OBVIOUS
<1>6. /\ q \in ViewRec /\ SameFace(r, q) /\ q.frame = r.frame
      /\ q.lent = r.lent /\ q.shown = r.shown
  <2>1. r.idle > 0
    BY <1>2, <1>4
  <2> QED BY <1>5, <2>1, Idled, Zenon
<1>7. h = PutView(a, v, q)
  <2>1. h = Finished(a, v)
    BY <1>1, Zenon DEF Freed
  <2> QED BY <1>4, <1>5, <2>1, Zenon DEF PutView, Finished
<1>8. OneView(s, a, h, v) /\ h.window = a.window /\ h.views[v] = q
  BY <1>3, <1>6, <1>7, SetView
<1>9. OneView(s, g, h, v)
  BY <1>2, <1>8, OneViewChain
<1>10. SameFace(g.views[v], h.views[v])
  BY <1>2, <1>4, <1>6, <1>8, Faces
<1>11. Buffers(h)
  <2>1. Returned(g.views[v])
    BY DEF Buffers
  <2>2. q.lent = {} /\ q.shown = NoBuffer
    BY <1>2, <1>4, <1>6, <2>1 DEF Returned
  <2>3. Returned(q)
    BY <2>2 DEF Returned
  <2>4. \A w \in View \ {v} : h.views[w] = g.views[w]
    BY <1>9, Zenon DEF OneView
  <2> QED BY <1>8, <2>3, <2>4, Zenon DEF Buffers
<1> QED BY <1>2, <1>4, <1>6, <1>8, <1>9, <1>10, <1>11, Zenon

\* A frame, drawn or not, is a step of the view alone.
LEMMA RenderAfter ==
  ASSUME NEW s, NEW g \in State(s), Good(g), NEW v \in View, NEW b \in Buffer,
         b \notin g.views[v].lent, Buffers(g), NEW h, h = Rendered(g, v, b)
  PROVE  After(s, g, h)
<1>1. /\ OneView(s, g, h, v) /\ Buffers(h) /\ SameFace(g.views[v], h.views[v])
      /\ h.window.strip = g.window.strip /\ h.window.bar = g.window.bar
      /\ h.window.content = IF g.views[v].active THEN Content(h, v) ELSE g.window.content
  BY RenderBuffer
<1>2. g.views[v].active <=> v = ActiveView(g)
  BY DEF Good, Shown
<1>3. Good(h)
  BY <1>1, <1>2, FrameGood
<1>4. h \in State(s) /\ h.browser = g.browser
  BY <1>1, Zenon DEF OneView
<1> QED BY <1>1, <1>3, <1>4, QuietAfter

\* A view that no tab shows may go.
LEMMA DisposedAfter ==
  ASSUME NEW s, NEW g \in State(s), NEW v \in View, v \notin Opened(g),
         NEW h, h = view_dispose(g, v)
  PROVE  /\ h \in State(s) /\ h.browser = g.browser
         /\ (Buffers(g) => Buffers(h)) /\ (Good(g) => Good(h))
<1>1. /\ h \in State(s) /\ h.browser = g.browser /\ h.window = g.window
      /\ h.views[v] = NewView /\ \A w \in View \ {v} : h.views[w] = g.views[w]
  BY NewRecord
<1>2. Buffers(g) => Buffers(h)
  BY <1>1, NewViewIs, Zenon DEF Buffers
<1>3. ASSUME Good(g) PROVE Good(h)
  <2>1. Tabs(g) /\ InRange(g) /\ Shown(g) /\ Focused(g) /\ Truthful(g)
    BY <1>3 DEF Good
  <2>2. PICK u \in View : u = ActiveView(g) /\ u # v
    BY <2>1, ActiveIs
  <2>3. Count(h) = Count(g) /\ Opened(h) = Opened(g) /\ ActiveView(h) = u
    BY <1>1, <2>2, Zenon DEF Count, Opened, ActiveView
  <2>4. h.views[u] = g.views[u]
    BY <1>1, <2>2
  <2>5. ~h.views[v].active /\ ~g.views[v].active
    BY <1>1, <2>1, NewViewIs, Zenon DEF Tabs
  <2>6. \A w \in View : h.views[w].active <=> g.views[w].active
    BY <1>1, <2>5, Zenon
  <2>7. Tabs(h)
    <3>1. \A w \in View \ Opened(h) : ~h.views[w].active
      BY <2>1, <2>3, <2>6 DEF Tabs
    <3>2. \A i, j \in 1 .. Count(h) : h.browser.tabs[i] = h.browser.tabs[j] => i = j
      BY <1>1, <2>1, <2>3 DEF Tabs
    <3> QED BY <3>1, <3>2, Zenon DEF Tabs
  <2>8. InRange(h)
    BY <1>1, <2>1, <2>3, Zenon DEF InRange
  <2>9. Shown(h)
    <3>1. Content(h, u) = Content(g, u)
      BY <2>4, Zenon DEF Content
    <3> QED BY <1>1, <2>1, <2>2, <2>3, <2>6, <3>1, Zenon DEF Shown
  <2>10. Focused(h)
    <3>1. \A w \in Opened(g) : h.views[w] = g.views[w]
      BY <1>1, TabsAre
    <3> QED BY <1>1, <2>1, <2>2, <2>3, <3>1, Zenon DEF Focused
  <2>11. Truthful(h)
    <3>1. \A w \in Opened(g) : h.views[w].title = g.views[w].title
      BY <1>1, TabsAre
    <3>2. Labelled(h)
      BY <1>1, <2>1, <3>1, LabelledAgain, Zenon DEF Truthful, SameTabs
    <3>3. ToolbarTrue(h)
      BY <1>1, <2>1, <2>2, <2>3, <2>4, ToolbarAgain, Zenon DEF Truthful
    <3>4. ~h.browser.editing => AddressTrue(h)
      BY <1>1, <2>1, <2>2, <2>3, <2>4, AddressAgain, Zenon DEF Truthful
    <3> QED BY <3>2, <3>3, <3>4 DEF Truthful
  <2> QED BY <2>7, <2>8, <2>9, <2>10, <2>11 DEF Good
<1> QED BY <1>1, <1>2, <1>3

LEMMA ReleaseAfter ==
  ASSUME NEW s, NEW g \in State(s), Count(g) > 0 => Good(g), NEW v \in View,
         g.views[v].idle > 0, Buffers(g), NEW a, a = Freed(g, v),
         NEW h, h = IF v \notin Opened(a) /\ a.views[v].idle = 0 THEN view_dispose(a, v) ELSE a
  PROVE  After(s, g, h)
<1>1. /\ OneView(s, g, a, v) /\ Buffers(a) /\ SameFace(g.views[v], a.views[v])
      /\ a.window = g.window /\ a.views[v].frame = g.views[v].frame
  BY ReleaseBuffer
<1>2. a \in State(s) /\ a.browser = g.browser
  BY <1>1, Zenon DEF OneView
<1>3. Good(g) => Good(a)
  <2> SUFFICES ASSUME Good(g) PROVE Good(a)
    OBVIOUS
  <2>1. v = ActiveView(g) => a.window.content = Content(a, v)
    BY <1>1, Zenon DEF Good, Shown, Content
  <2> QED BY <1>1, <2>1, FrameGood
<1>4. h \in State(s) /\ h.browser = a.browser /\ Buffers(h) /\ (Good(a) => Good(h))
  <2>1. CASE h = a
    BY <1>1, <1>2, <2>1
  <2>2. CASE v \notin Opened(a) /\ h = view_dispose(a, v)
    BY <1>1, <1>2, <2>2, DisposedAfter
  <2> QED BY <2>1, <2>2
<1> QED BY <1>2, <1>3, <1>4, QuietAfter

\* A page is loading, or no longer.
Progressed(g, v) == [g EXCEPT !.views[v].progress = ~@]

LEMMA TurnOver ==
  ASSUME NEW r \in ViewRec, NEW q, q = [r EXCEPT !.progress = ~@]
  PROVE  /\ q \in ViewRec /\ q.active = r.active /\ q.focus = r.focus /\ q.uri = r.uri
         /\ q.title = r.title /\ q.frame = r.frame /\ q.lent = r.lent /\ q.shown = r.shown /\ q.idle = r.idle
<1>1. PICK p : p = ~r.progress
  OBVIOUS
<1>2. p \in BOOLEAN
  BY <1>1
<1>3. q = [r EXCEPT !.progress = p]
  BY <1>1, Zenon
<1>4. q \in ViewRec
  BY <1>2, <1>3, Zenon DEF ViewRec
<1> QED BY <1>3, <1>4, Zenon DEF ViewRec

LEMMA ProgressAfter ==
  ASSUME NEW s, NEW g \in State(s), Good(g), NEW v \in View, NEW a, a = Progressed(g, v),
         NEW h, h = IF v = ActiveView(a) THEN draw_toolbar(a) ELSE a
  PROVE  After(s, g, h)
<1>1. PICK r \in ViewRec : r = g.views[v]
  BY ViewOf
<1>2. PICK q : q = [r EXCEPT !.progress = ~@]
  OBVIOUS
<1>3. /\ q \in ViewRec /\ q.active = r.active /\ q.focus = r.focus /\ q.uri = r.uri
      /\ q.title = r.title /\ q.frame = r.frame /\ q.lent = r.lent /\ q.shown = r.shown /\ q.idle = r.idle
  BY <1>2, TurnOver, Zenon
<1>4. a = PutView(g, v, q)
  BY <1>1, <1>2, Zenon DEF Progressed, PutView
<1>5. OneView(s, g, a, v) /\ a.window = g.window /\ a.views[v] = q
  BY <1>3, <1>4, SetView
<1>6. /\ a \in State(s) /\ a.browser = g.browser /\ a.loop = g.loop /\ SameTabs(g, a)
      /\ \A w \in View \ {v} : a.views[w] = g.views[w]
  BY <1>5, Zenon DEF OneView, SameTabs
<1>7. /\ SameBuffers(g, a)
      /\ \A w \in View : /\ a.views[w].active = g.views[w].active
                         /\ a.views[w].focus = g.views[w].focus
                         /\ a.views[w].uri = g.views[w].uri
                         /\ a.views[w].frame = g.views[w].frame /\ a.views[w].title = g.views[w].title
  BY <1>1, <1>3, <1>5, <1>6, Zenon DEF SameBuffers
<1>u. PICK u \in View : u = ActiveView(g) /\ u \in Opened(g)
  BY ActiveIs DEF Good
<1>8. /\ ActiveView(a) = u /\ Opened(a) = Opened(g) /\ (a.browser.editing <=> g.browser.editing)
      /\ (a.views[u].focus <=> ~g.browser.editing)
      /\ (~g.browser.editing => AddressTrue(a))
  <2>1. ActiveView(a) = u /\ Opened(a) = Opened(g) /\ (a.browser.editing <=> g.browser.editing)
    BY <1>6, <1>u, Zenon DEF ActiveView, Opened
  <2>2. g.views[u].focus <=> ~g.browser.editing
    BY <1>u DEF Good, Focused
  <2>3. ~g.browser.editing => AddressTrue(a)
    <3>1. a.views[ActiveView(a)].uri = g.views[ActiveView(g)].uri
      BY <1>7, <1>u, <2>1
    <3> QED BY <1>6, <3>1, AddressAgain DEF Good, Truthful
  <2> QED BY <1>6, <1>7, <1>u, <2>1, <2>2, <2>3, Zenon
<1>9. CASE v = u
  <2>1. h = draw_toolbar(a)
    BY <1>8, <1>9
  <2>2. /\ h \in State(s) /\ Good(h) /\ SameTabs(g, h)
        /\ h.browser = a.browser /\ h.views = a.views /\ h.loop = a.loop
    BY <1>5, <1>6, <1>7, <1>8, <1>u, <2>1, Redrawn
  <2>3. WithinTab(s, g, h)
    <3>1. SameBuffers(g, h)
      BY <1>7, <2>2, SameChain
    <3> QED BY <1>6, <2>2, <3>1, Zenon DEF WithinTab
  <2> QED BY <2>3, WithinAfter
<1>10. CASE v # u
  <2>1. h = a
    BY <1>8, <1>10
  <2>2. a.views[u] = g.views[u]
    BY <1>6, <1>u, <1>10
  <2>3. Focused(a)
    <3>1. \A w \in View \ {ActiveView(g)} : a.views[w].focus <=> g.views[w].focus
      BY <1>7
    <3>2. a.views[ActiveView(g)].focus <=> ~a.browser.editing
      BY <1>8, <1>u
    <3> QED BY <1>6, <3>1, <3>2, FocusAgain
  <2>4. ToolbarTrue(a)
    BY <1>5, <1>6, <1>8, <1>u, <2>2, ToolbarAgain, Zenon DEF Good, Truthful
  <2>5. Good(a)
    <3>1. ~a.browser.editing => AddressTrue(a)
      BY <1>8, <1>u
    <3>2. \A w \in View : a.views[w].active <=> g.views[w].active
      BY <1>7
    <3>3. \A w \in View : a.views[w].frame = g.views[w].frame /\ a.views[w].title = g.views[w].title
      BY <1>7
    <3> QED BY <1>5, <1>6, <2>3, <2>4, <3>1, <3>2, <3>3, GoodAgain
  <2>6. WithinTab(s, g, h)
    BY <1>6, <1>7, <2>1, <2>5, Zenon DEF WithinTab
  <2> QED BY <2>6, WithinAfter
<1> QED BY <1>9, <1>10

\* What a good state has besides the labels of its tabs.
ButLabels(g) ==
  /\ Tabs(g) /\ InRange(g) /\ Shown(g) /\ Focused(g) /\ ToolbarTrue(g)
  /\ ~g.browser.editing => AddressTrue(g)

LEMMA StripDrawn ==
  ASSUME NEW s, NEW g \in State(s), ButLabels(g), NEW a, a = draw_tabs(g)
  PROVE  /\ a \in State(s) /\ Good(a)
         /\ a.browser = g.browser /\ a.views = g.views
<1>1. /\ a \in State(s) /\ a.browser = g.browser /\ a.views = g.views
      /\ a.window.strip = Strip(g)
      /\ a.window.content = g.window.content /\ a.window.bar = g.window.bar
  BY DrawTabs, Zenon
<1>2. Count(a) = Count(g) /\ Opened(a) = Opened(g) /\ ActiveView(a) = ActiveView(g)
  BY <1>1, Zenon DEF Count, Opened, ActiveView
<1>0. Tabs(g)
  BY Zenon DEF ButLabels
<1>t. Tabs(a)
  <2>1. a.browser.tabs = g.browser.tabs
    BY <1>1
  <2>2. \A i, j \in 1 .. Count(a) : a.browser.tabs[i] = a.browser.tabs[j] => i = j
    BY <1>0, <1>2, <2>1, Zenon DEF Tabs
  <2>3. \A v \in View \ Opened(a) : ~a.views[v].active
    BY <1>0, <1>1, <1>2, Zenon DEF Tabs
  <2> QED BY <2>2, <2>3, Zenon DEF Tabs
<1>r. InRange(a)
  BY <1>1, <1>2, Zenon DEF ButLabels, InRange
<1>3. Tabs(a) /\ InRange(a)
  BY <1>t, <1>r
<1>4. Shown(a)
  BY <1>1, <1>2, Zenon DEF ButLabels, Shown, Content
<1>5. Focused(a)
  BY <1>1, <1>2, Zenon DEF ButLabels, Focused
<1>6. Labelled(a)
  <2>1. Strip(a) = Strip(g)
    BY <1>1, <1>2, Zenon DEF Strip, tab_title
  <2> QED BY <1>1, <2>1, StripLabelled
<1>7. ToolbarTrue(a)
  BY <1>1, <1>2, ToolbarAgain, Zenon DEF ButLabels
<1>8. ~a.browser.editing => AddressTrue(a)
  BY <1>1, <1>2, AddressAgain, Zenon DEF ButLabels
<1>9. Truthful(a)
  BY <1>6, <1>7, <1>8 DEF Truthful
<1> QED BY <1>1, <1>3, <1>4, <1>5, <1>9 DEF Good

LEMMA LoadAfter ==
  ASSUME NEW s, NEW g \in State(s), Good(g), NEW a, a = draw_tabs(g),
         NEW h, h = a \/ h = draw_toolbar(a)
  PROVE  After(s, g, h)
<1>1. ButLabels(g)
  BY Zenon DEF Good, Truthful, ButLabels
<1>2. a \in State(s) /\ Good(a) /\ a.browser = g.browser /\ a.views = g.views
  BY <1>1, StripDrawn
<1>3. CASE h = a
  <2>1. Buffers(g) => Buffers(a)
    BY <1>2, Zenon DEF Buffers
  <2> QED BY <1>2, <1>3, <2>1, QuietAfter
<1>4. CASE h = draw_toolbar(a)
  <2>1. /\ h \in State(s) /\ Good(h) /\ h.browser = a.browser /\ h.views = a.views
    <3>1. /\ Tabs(a) /\ InRange(a) /\ Shown(a) /\ Focused(a) /\ Labelled(a)
          /\ ~a.browser.editing => AddressTrue(a)
      BY <1>2 DEF Good, Truthful
    <3> QED BY <1>2, <1>4, <3>1, Drawn
  <2>2. Buffers(g) => Buffers(h)
    BY <1>2, <2>1, Zenon DEF Buffers
  <2> QED BY <1>2, <2>1, <2>2, QuietAfter
<1> QED BY <1>3, <1>4

\* A page's title, on which nothing but its tab's label depends.
WithTitle(g, v, title) == [g EXCEPT !.views[v].title = title]

LEMMA Retitled ==
  ASSUME NEW r \in ViewRec, NEW title \in Title \cup {Empty},
         NEW q, q = [r EXCEPT !.title = title]
  PROVE  /\ q \in ViewRec /\ q.active = r.active /\ q.focus = r.focus /\ q.uri = r.uri
         /\ q.progress = r.progress
         /\ q.frame = r.frame /\ q.lent = r.lent /\ q.shown = r.shown /\ q.idle = r.idle
<1>1. q \in ViewRec
  BY Zenon DEF ViewRec
<1> QED BY <1>1, Zenon DEF ViewRec

LEMMA TitleAfter ==
  ASSUME NEW s, NEW g \in State(s), Good(g), NEW v \in View, NEW title \in Title \cup {Empty},
         NEW h, h = draw_tabs(WithTitle(g, v, title))
  PROVE  After(s, g, h)
<1>1. PICK r \in ViewRec : r = g.views[v]
  BY ViewOf
<1>2. PICK q : q = [r EXCEPT !.title = title]
  OBVIOUS
<1>3. /\ q \in ViewRec /\ q.active = r.active /\ q.focus = r.focus /\ q.uri = r.uri
      /\ q.progress = r.progress
      /\ q.frame = r.frame /\ q.lent = r.lent /\ q.shown = r.shown /\ q.idle = r.idle
  BY <1>2, Retitled
<1>4. PICK a : a = WithTitle(g, v, title)
  OBVIOUS
<1>5. a = PutView(g, v, q)
  BY <1>1, <1>2, <1>4, Zenon DEF WithTitle, PutView
<1>6. OneView(s, g, a, v) /\ a.window = g.window /\ a.views[v] = q
  BY <1>3, <1>5, SetView
<1>7. /\ a \in State(s) /\ a.browser = g.browser
      /\ \A w \in View \ {v} : a.views[w] = g.views[w]
  BY <1>6, Zenon DEF OneView
<1>8. \A w \in View : /\ a.views[w].active = g.views[w].active
                      /\ a.views[w].focus = g.views[w].focus
                      /\ a.views[w].uri = g.views[w].uri
                      /\ a.views[w].progress = g.views[w].progress
                      /\ a.views[w].frame = g.views[w].frame
  BY <1>1, <1>3, <1>6, <1>7, Zenon
<1>9. /\ Count(a) = Count(g) /\ Opened(a) = Opened(g) /\ ActiveView(a) = ActiveView(g)
      /\ Opened(g) \subseteq View
  BY <1>7, TabsAre, Zenon DEF Count, Opened, ActiveView
<1>10. ActiveView(g) \in View
  BY ActiveIs DEF Good
<1>11. ButLabels(a)
  <2>1. Tabs(a) /\ InRange(a)
    <3>1. Tabs(g) /\ InRange(g)
      BY DEF Good
    <3> QED BY <1>7, <1>8, <1>9, <3>1, Zenon DEF Tabs, InRange
  <2>2. Shown(a)
    BY <1>6, <1>8, <1>9, <1>10, Zenon DEF Good, Shown, Content
  <2>3. Focused(a)
    <3>1. \A w \in Opened(g) : a.views[w].focus = g.views[w].focus
      BY <1>8, <1>9
    <3> QED BY <1>7, <1>9, <3>1, Zenon DEF Good, Focused
  <2>4. ToolbarTrue(a)
    BY <1>6, <1>7, <1>8, <1>9, <1>10, ToolbarAgain, Zenon DEF Good, Truthful
  <2>5. ~a.browser.editing => AddressTrue(a)
    BY <1>7, <1>8, <1>9, <1>10, AddressAgain, Zenon DEF Good, Truthful
  <2> QED BY <2>1, <2>2, <2>3, <2>4, <2>5 DEF ButLabels
<1>12. h \in State(s) /\ Good(h) /\ h.browser = a.browser /\ h.views = a.views
  BY <1>4, <1>7, <1>11, StripDrawn
<1>13. ASSUME Buffers(g) PROVE Buffers(h)
  <2>1. Returned(q)
    BY <1>1, <1>3, <1>13, Zenon DEF Buffers, Returned
  <2> QED BY <1>6, <1>7, <1>12, <1>13, <2>1, Zenon DEF Buffers
<1> QED BY <1>7, <1>12, <1>13, QuietAfter

\* The way back and forward, which is drawn some other time.
LEMMA HistoryAfter ==
  ASSUME NEW s, NEW g \in State(s), Good(g), NEW v \in View,
         NEW history \in SUBSET {"back", "forward"},
         NEW h, h = [g EXCEPT !.views[v].history = history]
  PROVE  After(s, g, h)
<1>1. PICK r \in ViewRec : r = g.views[v]
  BY ViewOf
<1>2. PICK q : q = [r EXCEPT !.history = history]
  OBVIOUS
<1>3. q \in ViewRec
  BY <1>2, Zenon DEF ViewRec
<1>4. SameFace(r, q) /\ q.frame = r.frame
      /\ q.lent = r.lent /\ q.shown = r.shown /\ q.idle = r.idle
  BY <1>2, Zenon DEF ViewRec, SameFace
<1>a. PICK a : a = PutView(g, v, q)
  OBVIOUS
<1>b. OneView(s, g, a, v) /\ a.window = g.window /\ a.views[v] = q
  BY <1>3, <1>a, SetView
<1>5. h = a
  BY <1>1, <1>2, <1>a, Zenon DEF PutView
<1>6. OneView(s, g, h, v) /\ h.window = g.window /\ h.views[v] = q
  BY <1>5, <1>b
<1>7. Good(h)
  <2>1. v = ActiveView(g) => h.window.content = Content(h, v)
    BY <1>1, <1>4, <1>6, Zenon DEF Good, Shown, Content
  <2> QED BY <1>1, <1>4, <1>6, <2>1, FrameGood
<1>8. ASSUME Buffers(g) PROVE Buffers(h)
  <2>1. Returned(q)
    BY <1>1, <1>4, <1>8, Zenon DEF Buffers, Returned
  <2> QED BY <1>6, <1>8, <2>1, Zenon DEF Buffers, OneView
<1>9. h \in State(s) /\ h.browser = g.browser
  BY <1>6, Zenon DEF OneView
<1> QED BY <1>7, <1>8, <1>9, QuietAfter

-----------------------------------------------------------------------------
(* The main loop.                                                          *)

\* What CloseKeepsTab says of a step.
KeepsTab ==
  (/\ browser.tabs # <<>> /\ Len(browser'.tabs) < Len(browser.tabs)
   /\ ActiveView(Now) \in Range(browser'.tabs))
     => browser'.tabs[browser'.active + 1] = ActiveView(Now)

\* What each step of the main loop does.
Kept == IInv' /\ KeepsTab /\ KeymapAgrees'

\* A step that leaves such a state behind keeps the invariant.
LEMMA SteppedWith ==
  ASSUME IInv, NEW t, NEW h, After(t, Now, h), Become(h), FoundBack(t)
  PROVE  Kept
<1>1. /\ h \in State(t) /\ Buffers(h) /\ (Count(h) > 0 => Good(h))
      /\ Count(h) < Count(Now) /\ ActiveView(Now) \in Opened(h) => ActiveView(h) = ActiveView(Now)
  BY DEF IInv, After
<1>2. browser' = h.browser /\ views' = h.views /\ window' = h.window /\ loop' = h.loop
  BY DEF Become
<1>3. PICK n : n = Now'
  OBVIOUS
<1>4. /\ n.browser = h.browser /\ n.views = h.views /\ n.window = h.window
      /\ n.browser = browser' /\ n.loop = loop'
  BY <1>2, <1>3, Zenon DEF Now
<1>5. n \in State(NoKey)
  <2>1. /\ h.browser \in BrowserRec /\ h.views \in [View -> ViewRec] /\ h.window \in WindowRec
        /\ h.loop \in {"run", "quit", "undefined", "ended"}
    BY <1>1, Zenon DEF State
  <2> QED BY <1>2, <1>3, <2>1, Zenon DEF Now, State
<1>6. /\ Good(h) => Good(n)
      /\ Buffers(h) => Buffers(n)
  BY <1>4, SameState
<1>7. Dispatching' => Good(n)
  <2> SUFFICES ASSUME browser'.tabs # <<>> PROVE Good(n)
    BY DEF Dispatching
  <2>1. h.browser.tabs \in Seq(View)
    BY <1>1, TabsAre
  <2>2. Count(h) > 0
    BY <1>2, <2>1 DEF Count
  <2> QED BY <1>1, <1>6, <2>2
<1>8. IInv'
  BY <1>1, <1>3, <1>5, <1>6, <1>7 DEF IInv
<1>9. KeepsTab
  <2>1. Count(h) = Len(browser'.tabs) /\ Opened(h) = Range(browser'.tabs)
        /\ ActiveView(h) = browser'.tabs[browser'.active + 1]
    BY <1>2 DEF Count, Opened, ActiveView
  <2>2. Count(Now) = Len(browser.tabs)
    BY Zenon DEF Count, Now
  <2> QED BY <1>1, <2>1, <2>2, Zenon DEF KeepsTab
<1>10. KeymapAgrees'
  <2>1. sent' = t
    BY <1>1, Zenon DEF Become, State
  <2> QED BY <2>1, Zenon DEF FoundBack, KeysymFound, KeymapAgrees
<1> QED BY <1>8, <1>9, <1>10 DEF Kept

LEMMA Stepped ==
  ASSUME IInv, NEW h, After(NoKey, Now, h), Become(h)
  PROVE  Kept
BY NoKeyFound, SteppedWith

LEMMA KeyStep ==
  ASSUME IInv, NEW code, NEW extended \in BOOLEAN, NEW pressed,
         Key(code, extended, pressed)
  PROVE  Kept
<1>1. PICK g : g = Now
  OBVIOUS
<1>2. g \in State(NoKey) /\ Good(g) /\ HasRoom(g)
  BY <1>1 DEF IInv, Key, Room, HasRoom
<1>3. PICK rest : Become(handle_key(g, code, extended, pressed, rest))
  BY <1>1, Zenon DEF Key
<1>4. PICK h : h = handle_key(g, code, extended, pressed, rest)
  OBVIOUS
<1>5. PICK t : After(t, g, h) /\ (t = NoKey \/ FoundBack(t))
  BY <1>2, <1>4, HandleKey
<1> QED BY <1>1, <1>3, <1>4, <1>5, NoKeyFound, SteppedWith

LEMMA MouseStep ==
  ASSUME IInv, NEW area \in {"strip", "toolbar", "page"}, NEW x, NEW held \in SUBSET Button,
         Mouse(area, x, held)
  PROVE  Kept
<1>1. PICK g : g = Now
  OBVIOUS
<1>2. g \in State(NoKey) /\ Good(g) /\ HasRoom(g)
  BY <1>1 DEF IInv, Mouse, Room, HasRoom
<1>3. PICK h : h = handle_mouse(g, area, x, held)
  OBVIOUS
<1>4. After(NoKey, g, h)
  BY <1>2, <1>3, HandleMouse
<1>5. Become(h)
  BY <1>1, <1>3, Zenon DEF Mouse
<1> QED BY <1>1, <1>4, <1>5, Stepped

LEMMA Nothing ==
  /\ NoProgram \in State(NoKey) /\ Tabs(NoProgram) /\ Buffers(NoProgram)
  /\ Count(NoProgram) = 0 /\ Opened(NoProgram) = {} /\ HasRoom(NoProgram)
<1>1. PICK b : b = [tabs |-> <<>>, active |-> 0, address |-> Empty, editing |-> FALSE,
                    replace |-> FALSE, modifiers |-> {}, buttons |-> {}]
  OBVIOUS
<1>t. b.tabs = <<>>
  BY <1>1
<1>2. b \in BrowserRec
  <2>1. <<>> \in Seq(View) /\ 0 \in Nat /\ Empty \in Address
    BY DEF Address
  <2> QED BY <1>1, <2>1, Zenon DEF BrowserRec
<1>3. PICK f : f = [v \in View |-> NewView]
  OBVIOUS
<1>4. f \in [View -> ViewRec] /\ \A v \in View : f[v] = NewView
  BY <1>3, NewViewIs, Zenon
<1>5. [content |-> White, strip |-> <<>>, bar |-> <<>>] \in WindowRec
  BY Zenon DEF WindowRec
<1>6. PICK g : g = NoProgram
  OBVIOUS
<1>7. g \in State(NoKey) /\ g.browser = b /\ g.views = f
  BY <1>1, <1>2, <1>3, <1>4, <1>5, <1>6, Zenon DEF NoProgram, State
<1>8. Count(g) = 0
  <2>1. g.browser.tabs = <<>>
    BY <1>t, <1>7
  <2> QED BY <2>1 DEF Count
<1>9. Opened(g) = {}
  BY <1>7, <1>8, TabsAre
<1>10. Tabs(g)
  BY <1>4, <1>7, <1>8, NewViewIs DEF Tabs
<1>11. Buffers(g)
  BY <1>4, <1>7, NewViewIs, Zenon DEF Buffers
<1>12. HasRoom(g)
  <2>1. PICK v : v \in View
    BY BrowserAssumption
  <2>2. v \in Fresh(g)
    BY <1>4, <1>7, <1>9, <2>1, NewViewIs, Zenon DEF Fresh
  <2> QED BY <2>2, Zenon DEF HasRoom
<1> QED BY <1>6, <1>7, <1>8, <1>9, <1>10, <1>11, <1>12

\* The program is gone, or anything but the program.
Over(end) == [NoProgram EXCEPT !.loop = end]

LEMMA Ended ==
  ASSUME NEW g, NEW end \in {"undefined", "ended"}, NEW h, h = Over(end)
  PROVE  After(NoKey, g, h)
<1>1. PICK n \in State(NoKey) : n = NoProgram
  BY Nothing
<1>2. h = [n EXCEPT !.loop = end]
  BY <1>1, Zenon DEF Over
<1>3. end \in {"run", "quit", "undefined", "ended"}
  OBVIOUS
<1>4. h \in State(NoKey)
  BY <1>2, <1>3, Zenon DEF State
<1>5. h.browser = n.browser /\ h.views = n.views /\ h.window = n.window
  BY <1>2, Zenon DEF State
<1>6. Count(h) = 0 /\ Opened(h) = {} /\ Buffers(h)
  BY <1>1, <1>5, Nothing, SameState
<1> QED BY <1>4, <1>6 DEF After

\* g_main_loop_quit.
Quit(g) == [g EXCEPT !.loop = "quit"]

LEMMA QuitAfter ==
  ASSUME NEW s, NEW g \in State(s), Good(g), NEW h, h = Quit(g)
  PROVE  After(s, g, h)
<1>1. h \in State(s)
  BY Zenon DEF Quit, State
<1>2. h.browser = g.browser /\ h.views = g.views /\ h.window = g.window
  BY Zenon DEF Quit, State
<1>3. (Good(g) => Good(h)) /\ (Buffers(g) => Buffers(h))
  BY <1>2, SameState
<1> QED BY <1>1, <1>2, <1>3, QuietAfter

LEMMA LoopStepKeeps ==
  ASSUME IInv, LoopStep
  PROVE  Kept
<1>1. PICK g : g = Now
  OBVIOUS
<1>2. g \in State(NoKey)
  BY <1>1 DEF IInv
<1>3. CASE CloseWindow
  <2>1. Good(g)
    BY <1>1, <1>3 DEF IInv, CloseWindow
  <2>2. PICK h : h = Quit(g)
    OBVIOUS
  <2>3. After(NoKey, g, h)
    BY <1>2, <2>1, <2>2, QuitAfter
  <2>4. Become(h)
    BY <1>1, <1>3, <2>2, Zenon DEF CloseWindow, Quit
  <2> QED BY <1>1, <2>3, <2>4, Stepped
<1>4. ASSUME NEW end \in {"undefined", "ended"}, Become(Over(end)) PROVE Kept
  <2>1. PICK h : h = Over(end)
    OBVIOUS
  <2>2. After(NoKey, g, h)
    BY <2>1, Ended
  <2> QED BY <1>1, <1>4, <2>1, <2>2, Stepped
<1>5. CASE LateEvent
  BY <1>4, <1>5, Zenon DEF LateEvent, Over
<1>6. CASE LoopEnds
  BY <1>4, <1>6, Zenon DEF LoopEnds, Over
<1> QED BY <1>3, <1>5, <1>6 DEF LoopStep

LEMMA PageStepKeeps ==
  ASSUME IInv, NEW v \in View, PageStep(v)
  PROVE  Kept
<1>1. PICK g : g = Now
  OBVIOUS
<1>2. g \in State(NoKey) /\ Good(g) /\ Tabs(g)
  <2>1. Page(v)
    BY Zenon DEF PageStep, PageUri, on_title, PageHistory, on_progress, on_load,
                 PageCreates, on_close
  <2> QED BY <1>1, <2>1 DEF IInv, Page, Good
<1>3. CASE \E uri \in Uri : PageUri(v, uri)
  <2>1. PICK uri \in Uri : Become(on_uri(WithUri(g, v, uri), v))
    BY <1>1, <1>3, Zenon DEF PageUri, WithUri
  <2>2. PICK h : h = on_uri(WithUri(g, v, uri), v)
    OBVIOUS
  <2>3. WithinTab(NoKey, g, h)
    BY <1>2, <2>2, OnUri
  <2>4. After(NoKey, g, h)
    BY <1>2, <2>3, WithinAfter
  <2> QED BY <1>1, <2>1, <2>2, <2>4, Stepped
<1>4. CASE on_progress(v)
  <2>1. PICK a : a = Progressed(g, v)
    OBVIOUS
  <2>2. PICK h : h = IF v = ActiveView(a) THEN draw_toolbar(a) ELSE a
    OBVIOUS
  <2>3. After(NoKey, g, h)
    BY <1>2, <2>1, <2>2, ProgressAfter
  <2>4. Become(h)
    BY <1>1, <1>4, <2>1, <2>2, Zenon DEF on_progress, Progressed
  <2> QED BY <1>1, <2>3, <2>4, Stepped
<1>5. CASE on_load(v)
  <2>1. PICK a : a = draw_tabs(g)
    OBVIOUS
  <2>2. PICK h : h = IF v = ActiveView(g) THEN draw_toolbar(a) ELSE a
    OBVIOUS
  <2>3. h = a \/ h = draw_toolbar(a)
    BY <2>2
  <2>4. After(NoKey, g, h)
    BY <1>2, <2>1, <2>3, LoadAfter
  <2>5. Become(h)
    BY <1>1, <1>5, <2>1, <2>2, Zenon DEF on_load
  <2> QED BY <1>1, <2>4, <2>5, Stepped
<1>6. CASE PageCreates(v)
  <2>1. PICK h : h = on_create(g)
    OBVIOUS
  <2>2. HasRoom(g)
    BY <1>1, <1>6 DEF PageCreates, Room, HasRoom
  <2>3. After(NoKey, g, h)
    <3>1. CASE Count(g) = MAX_TABS
      <4>1. h = g
        BY <2>1, <3>1, Zenon DEF on_create
      <4> QED BY <1>2, <4>1, UnmovedAfter
    <3>2. CASE Count(g) # MAX_TABS
      <4>1. NoneClosed(NoKey, g, h)
        BY <1>2, <2>1, <2>2, <3>2, OnCreate
      <4> QED BY <1>2, <4>1, NoneClosedAfter
    <3> QED BY <3>1, <3>2
  <2>4. Become(h)
    BY <1>1, <1>6, <2>1, Zenon DEF PageCreates
  <2> QED BY <1>1, <2>3, <2>4, Stepped
<1>7. CASE on_close(v)
  <2>1. PICK i \in 0 .. Count(g) - 1 : Become(close_tab(g, i))
    BY <1>1, <1>7, Zenon DEF on_close
  <2>2. i \in Nat /\ i < Count(g)
    BY <1>2, TabsAre
  <2>3. PICK h : h = close_tab(g, i)
    OBVIOUS
  <2>4. After(NoKey, g, h)
    BY <1>2, <2>2, <2>3, CloseTab
  <2> QED BY <1>1, <2>1, <2>3, <2>4, Stepped
<1>8. CASE \E title \in Title \cup {Empty} : on_title(v, title)
  <2>1. PICK title \in Title \cup {Empty} : Become(draw_tabs(WithTitle(g, v, title)))
    BY <1>1, <1>8, Zenon DEF on_title, Titled, WithTitle
  <2>2. PICK h : h = draw_tabs(WithTitle(g, v, title))
    OBVIOUS
  <2>3. After(NoKey, g, h)
    BY <1>2, <2>2, TitleAfter
  <2> QED BY <1>1, <2>1, <2>2, <2>3, Stepped
<1>9. CASE \E history \in SUBSET {"back", "forward"} : PageHistory(v, history)
  <2>1. PICK history \in SUBSET {"back", "forward"} :
               Become([g EXCEPT !.views[v].history = history])
    BY <1>1, <1>9, Zenon DEF PageHistory
  <2>2. PICK h : h = [g EXCEPT !.views[v].history = history]
    OBVIOUS
  <2>3. After(NoKey, g, h)
    BY <1>2, <2>2, HistoryAfter
  <2> QED BY <1>1, <2>1, <2>2, <2>3, Stepped
<1> QED BY <1>3, <1>4, <1>5, <1>6, <1>7, <1>8, <1>9, Zenon DEF PageStep

LEMMA FrameStepKeeps ==
  ASSUME IInv, NEW v \in View, FrameStep(v)
  PROVE  Kept
<1>1. PICK g : g = Now
  OBVIOUS
<1>2. g \in State(NoKey) /\ Buffers(g) /\ (Dispatching => Good(g)) /\ g.views = views
  <2>1. Now.views = views
    BY Zenon DEF Now
  <2> QED BY <1>1, <2>1 DEF IInv
<1>3. CASE \E b \in Buffer : view_render_buffer(v, b)
  <2>1. PICK b \in Buffer : view_render_buffer(v, b)
    BY <1>3
  <2>2. Dispatching /\ b \notin g.views[v].lent
    BY <1>2, <2>1 DEF view_render_buffer, Page
  <2>3. PICK h : h = Rendered(g, v, b)
    OBVIOUS
  <2>4. After(NoKey, g, h)
    BY <1>2, <2>2, <2>3, RenderAfter
  <2>5. Become(h)
    <3>1. Become(Rendered(Now, v, b))
      BY <2>1, Zenon DEF view_render_buffer, Rendered, Take, Lend, Framed
    <3> QED BY <1>1, <2>3, <3>1
  <2> QED BY <1>1, <2>4, <2>5, Stepped
<1>4. CASE view_release(v)
  <2>1. PICK a : a = Freed(g, v)
    OBVIOUS
  <2>2. PICK h : h = IF v \notin Opened(a) /\ a.views[v].idle = 0 THEN view_dispose(a, v) ELSE a
    OBVIOUS
  <2>3. g.views[v].idle > 0
    BY <1>2, <1>4 DEF view_release
  <2>4. Count(g) > 0 => Good(g)
    <3>1. Count(g) > 0 => browser.tabs # <<>>
      <4>1. Count(g) = Len(browser.tabs)
        BY <1>1, Zenon DEF Count, Now
      <4> QED BY <4>1
    <3> QED BY <1>2, <1>4, <3>1 DEF view_release, Dispatching
  <2>5. After(NoKey, g, h)
    BY <1>2, <2>1, <2>2, <2>3, <2>4, ReleaseAfter
  <2>6. Become(h)
    BY <1>1, <1>2, <1>4, <2>1, <2>2, Zenon DEF view_release, Freed, Finished
  <2> QED BY <1>1, <2>5, <2>6, Stepped
<1> QED BY <1>3, <1>4, Zenon DEF FrameStep

\* Every step of the main loop keeps the invariant, and the tab in view.
LEMMA StepKeeps ==
  ASSUME IInv, [Next]_vars
  PROVE  Kept \/ (UNCHANGED vars /\ IInv')
<1>1. CASE dispatch
  BY <1>1, KeyStep, MouseStep, Zenon DEF dispatch
<1>2. CASE LoopStep
  BY <1>2, LoopStepKeeps
<1>3. CASE \E v \in View : PageStep(v) \/ FrameStep(v)
  BY <1>3, PageStepKeeps, FrameStepKeeps, Zenon
<1>4. CASE UNCHANGED vars
  BY <1>4, Zenon DEF vars, IInv, Now, Dispatching
<1> QED BY <1>1, <1>2, <1>3, <1>4 DEF Next

\* The browser starts with one tab, which loads what the field shows.
LEMMA Starts ==
  ASSUME Init
  PROVE  IInv /\ KeymapAgrees
<1>1. PICK n \in State(NoKey) : n = NoProgram
  BY Nothing
<1>2. Tabs(n) /\ Buffers(n) /\ Count(n) = 0 /\ HasRoom(n)
  BY <1>1, Nothing
<1>f. PICK first \in Uri \cup {Empty, Typed} :
             /\ browser = Started(first).browser /\ views = Started(first).views
             /\ window = Started(first).window /\ loop = Started(first).loop
             /\ sent = Started(first).sent
  BY Zenon DEF Init
<1>3. PICK o : o = open_tab(n, first)
  OBVIOUS
<1>4. /\ NoneClosed(NoKey, n, o) /\ o.views[ActiveView(o)].uri = address_to_url(first)
      /\ Count(o) = 1
  <2>1. Count(n) # MAX_TABS
    BY <1>2, BrowserAssumption
  <2> QED BY <1>2, <1>3, <2>1, OpenTab
<1>5. o \in State(NoKey) /\ Good(o) /\ Buffers(o)
  BY <1>2, <1>4, Zenon DEF NoneClosed
<1>6. PICK b : b = [o EXCEPT !.browser.address = first]
  OBVIOUS
<1>7. b \in State(NoKey)
  <2>1. first \in Address
    BY DEF Address
  <2> QED BY <1>5, <1>6, <2>1, Zenon DEF State, BrowserRec
<1>8. /\ b.views = o.views /\ b.window = o.window /\ b.loop = o.loop /\ SameTabs(o, b)
      /\ b.browser.editing = o.browser.editing /\ b.browser.address = first
  BY <1>5, <1>6, Zenon DEF State, BrowserRec, SameTabs
<1>9. PICK h : h = draw_toolbar(b)
  OBVIOUS
<1>10. h \in State(NoKey) /\ Good(h) /\ h.views = b.views
  <2>1. PICK v \in View : v = ActiveView(o) /\ v \in Opened(o)
    BY <1>5, ActiveIs DEF Good
  <2>2. b.views[v].focus <=> ~b.browser.editing
    BY <1>5, <1>8, <2>1 DEF Good, Focused
  <2>3. AddressTrue(b)
    <3>1. ActiveView(b) = v /\ Count(b) = 1
      BY <1>4, <1>8, <2>1, Zenon DEF SameTabs, ActiveView, Count
    <3> QED BY <1>4, <1>8, <2>1, <3>1, Zenon DEF AddressTrue
  <2> QED BY <1>5, <1>7, <1>8, <1>9, <2>1, <2>2, <2>3, Redrawn
<1>11. Buffers(h)
  BY <1>5, <1>8, <1>10, Zenon DEF Buffers
<1>12. PICK k : k = Now
  OBVIOUS
<1>13. /\ browser = h.browser /\ views = h.views /\ window = h.window /\ loop = h.loop
       /\ sent = h.sent
  BY <1>1, <1>3, <1>6, <1>9, <1>f, Zenon DEF Started
<1>14. k.browser = h.browser /\ k.views = h.views /\ k.window = h.window
  BY <1>12, <1>13, Zenon DEF Now
<1>15. k \in State(NoKey)
  <2>1. /\ h.browser \in BrowserRec /\ h.views \in [View -> ViewRec] /\ h.window \in WindowRec
        /\ h.loop \in {"run", "quit", "undefined", "ended"}
    BY <1>10, Zenon DEF State
  <2> QED BY <1>12, <1>13, <2>1, Zenon DEF Now, State
<1>16. Good(k) /\ Buffers(k)
  BY <1>10, <1>11, <1>14, SameState
<1>17. KeymapAgrees
  <2>1. sent = NoKey
    BY <1>10, <1>13, Zenon DEF State
  <2> QED BY <2>1, Zenon DEF KeymapAgrees
<1> QED BY <1>12, <1>15, <1>16, <1>17 DEF IInv

-----------------------------------------------------------------------------
(* Theorems.                                                               *)

\* In every state of every run, whatever events arrive and whatever pages do,
\* the tabs, the views and the window agree (activate, close_tab, open_tab).
THEOREM Invariance == Spec => []IInv
<1>1. Init => IInv
  BY Starts
<1>2. IInv /\ [Next]_vars => IInv'
  BY StepKeeps DEF Kept
<1> QED BY <1>1, <1>2, PTL DEF Spec

\* The window always shows the active tab's last frame, and its view is the
\* only active one: no background frame is drawn (view_render_buffer).
THEOREM ShowsActiveTab == Spec => []ActiveTabShown
<1>1. IInv => ActiveTabShown
  <2> SUFFICES ASSUME IInv, Dispatching PROVE ActiveTabShown
    BY DEF ActiveTabShown
  <2>1. PICK g : g = Now
    OBVIOUS
  <2>2. g.browser = browser /\ g.views = views /\ g.window = window
    BY <2>1, Zenon DEF Now
  <2>3. g \in State(NoKey) /\ InRange(g) /\ Shown(g)
    BY <2>1 DEF IInv, Good
  <2>4. ActiveView(g) \in View
    BY <2>3, ActiveIs
  <2>5. {v \in View : views[v].active} = {ActiveView(g)}
    BY <2>2, <2>3, <2>4 DEF Shown
  <2> QED BY <2>1, <2>2, <2>3, <2>5 DEF ActiveTabShown, InRange, Shown
<1> QED BY <1>1, Invariance, PTL

\* Keys go to the active page or to the address field, never to both or to
\* another page (wpe_view_focus_in, wpe_view_focus_out, edit_address).
THEOREM KeysGoToOne == Spec => []KeysGoToOnePlace
<1>1. IInv => KeysGoToOnePlace
  <2> SUFFICES ASSUME IInv, Dispatching PROVE KeysGoToOnePlace
    BY DEF KeysGoToOnePlace
  <2>1. PICK g : g = Now
    OBVIOUS
  <2>2. g.browser = browser /\ g.views = views
    BY <2>1, Zenon DEF Now
  <2>3. Focused(g)
    BY <2>1 DEF IInv, Good
  <2> QED BY <2>1, <2>2, <2>3, Zenon DEF KeysGoToOnePlace, Focused
<1> QED BY <1>1, Invariance, PTL

\* For any titles and addresses of any number of tabs: each tab bears its own
\* title or an address, the toolbar is the page's in view, and so is an address
\* that is not being edited (draw_tabs, draw_toolbar, on_title, on_uri).
THEOREM WindowIsTruthful == Spec => []WindowTruthful
<1>1. IInv => WindowTruthful
  <2> SUFFICES ASSUME IInv, Dispatching PROVE WindowTruthful
    BY DEF WindowTruthful
  <2>1. PICK g : g = Now
    OBVIOUS
  <2>2. g.browser = browser /\ g.views = views /\ g.window = window
    BY <2>1, Zenon DEF Now
  <2>3. Truthful(g)
    BY <2>1 DEF IInv, Good
  <2> QED BY <2>1, <2>2, <2>3, Zenon DEF WindowTruthful, Truthful
<1> QED BY <1>1, Invariance, PTL

\* Every buffer but the one on show is back with WebKit, and that one's release
\* is queued (view_render_buffer, view_release).
THEOREM BuffersComeBack == Spec => []BuffersReturn
<1>1. IInv => BuffersReturn
  <2> SUFFICES ASSUME IInv PROVE BuffersReturn
    OBVIOUS
  <2>1. PICK g : g = Now
    OBVIOUS
  <2>2. g.views = views /\ Buffers(g)
    BY <2>1, Zenon DEF Now, IInv
  <2> QED BY <2>2, Zenon DEF BuffersReturn, Buffers, Returned
<1> QED BY <1>1, Invariance, PTL

\* A tab that stays open while another closes stays in view, however the other
\* one closed (close_tab, activate).
THEOREM ClosingKeepsTab == Spec => CloseKeepsTab
<1>1. IInv /\ [Next]_vars => [KeepsTab]_vars
  BY StepKeeps DEF Kept
<1>2. Spec => [][KeepsTab]_vars
  BY <1>1, Invariance, PTL DEF Spec
<1> QED BY <1>2, Zenon DEF CloseKeepsTab, KeepsTab

\* Whatever key is typed, with whatever modifiers, WebKit's keymap finds the
\* keysym the browser sent, at a level that types it (orange_key_translate,
\* keymap_translate, keymap_entries_for_keyval).
THEOREM KeymapAgreesAlways == Spec => []KeymapAgrees
<1>1. Init => KeymapAgrees
  BY Starts
<1>2. IInv /\ KeymapAgrees /\ [Next]_vars => KeymapAgrees'
  <2> SUFFICES ASSUME IInv, KeymapAgrees, [Next]_vars PROVE KeymapAgrees'
    OBVIOUS
  <2>1. CASE Kept
    BY <2>1 DEF Kept
  <2>2. CASE UNCHANGED vars
    BY <2>2, Zenon DEF vars, KeymapAgrees
  <2> QED BY <2>1, <2>2, StepKeeps
<1> QED BY <1>1, <1>2, Invariance, PTL DEF Spec
=============================================================================
