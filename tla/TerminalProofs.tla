--------------------------- MODULE TerminalProofs ---------------------------
(***************************************************************************)
(* The terminal is given back: whatever the screen's size, the frames and  *)
(* the order of suspends, failures and exits, nobody else finds the tty    *)
(* raw, a private mode on, or stdout in the log, unless psi is killed      *)
(* while it has the terminal or the last tcsetattr fails.                  *)
(*                                                                         *)
(* And a program that is started reads the arguments that it was given, in *)
(* the text that they were, whatever they are.                             *)
(***************************************************************************)
EXTENDS Terminal, CommandLines, RecursionProofs, FiniteSetTheorems, TLAPS

Restored == tty = "cooked" /\ modes = {} /\ out = "tty"

\* As far as psi_tui_leave_terminal sees to it: its tcsetattr may have failed.
Left == modes = {} /\ out = "tty" /\ (tty = "cooked" \/ stuck)

\* What each phase owes: the termios are known as long as the tty may be raw,
\* and the flag covers the modes only the alternate-screen sequence undoes.
Inv ==
  /\ modes \in SUBSET Modes /\ altFlag \in BOOLEAN
  /\ phase \in {"start", "ready", "entered", "running", "stopped", "editing", "leaving", "ended",
               "killed"}
  /\ "alt" \in modes \/ "mouse" \in modes => altFlag
  /\ phase \in {"entered", "running", "stopped", "editing"} => hasOriginal
  /\ phase \in {"entered", "leaving"} => out = "tty"
  /\ phase = "leaving" /\ ~hasOriginal => Left
  /\ phase \in {"start", "ready"} => Restored /\ ~hasOriginal
  /\ phase \in {"stopped", "editing"} => Restored
  /\ phase = "ended" => Left

\* Leaving under the flag turns every mode off.
LEMMA LeaveClears == Inv => Leave(modes) = {}
  BY DEF Inv, Leave, LeaveAlt, LeaveInline, Modes

\* Drawing leaves the ownership of the terminal alone, but for two modes.
LEMMA DrawingKeeps ==
  ASSUME Inv, Drawing, UNCHANGED <<phase, tty, out, hasOriginal, altFlag>>,
         modes' \in SUBSET Modes,
         "alt" \in modes' => "alt" \in modes, "mouse" \in modes' => "mouse" \in modes
  PROVE  Inv'
  BY DEF Inv, Drawing, Restored, Left

LEMMA InitInv == Init => Inv
  BY DEF Init, Inv, Restored, Left, Modes

\* The alternate screen and its flag change together.
LEMMA SetAltKeeps ==
  ASSUME Inv, NEW on \in BOOLEAN, SetAltScreen(on), phase = "running",
         UNCHANGED <<phase, tty, out, hasOriginal>>
  PROVE  Inv'
  BY DEF Inv, SetAltScreen, EnterAlt, LeaveAlt, Restored, Left, Modes

LEMMA OwnerKeeps ==
  ASSUME Inv, UNCHANGED <<phase, tty, modes, out, hasOriginal, altFlag, stuck>>
  PROVE  Inv'
  BY DEF Inv, Restored, Left

LEMMA StepInv == Inv /\ [Next]_vars => Inv'
<1> SUFFICES ASSUME Inv, [Next]_vars PROVE Inv'
  OBVIOUS
<1> Leave(modes) = {}
  BY LeaveClears
<1>1. CASE EnterTerminal
  BY <1>1 DEF EnterTerminal, Inv, Restored, Left, Modes
<1>2. ASSUME NEW ok \in BOOLEAN, Begin(ok) \/ TakeStdio(ok) PROVE Inv'
  <2>1. CASE Begin(ok)
    BY <2>1 DEF Begin, Inv, Restored, Left
  <2>2. CASE TakeStdio(ok)
    BY <2>2 DEF TakeStdio, LeaveTerminal, Inv, Restored, Left, Modes
  <2> QED  BY <1>2, <2>1, <2>2
<1>3. CASE LeaveTui
  BY <1>3 DEF LeaveTui, LeaveTerminal, Inv, Restored, Left, Modes
<1>4. CASE AtExit
  <2>1. CASE hasOriginal
    BY <1>4, <2>1 DEF AtExit, LeaveTerminal, Inv, Restored, Left, Modes
  <2>2. CASE ~hasOriginal
    BY <1>4, <2>2 DEF AtExit, Inv, Restored, Left
  <2> QED  BY <2>1, <2>2
<1>5. CASE Killed
  BY <1>5 DEF Killed, Inv, Restored, Left
<1>6. ASSUME NEW to \in {"stopped", "editing"}, NEW ok \in BOOLEAN,
             SuspendTerminal(to, ok)
      PROVE  Inv'
  BY <1>6 DEF SuspendTerminal, Inv, Restored, Left, Modes
<1>7. ASSUME NEW raw \in BOOLEAN, NEW guarded \in BOOLEAN,
             Continued(raw, guarded) \/ EditorReturns(raw, guarded)
      PROVE  Inv'
  <2>1. phase \in {"stopped", "editing"} /\ ResumeTerminal(raw, guarded)
    BY <1>7 DEF Continued, EditorReturns
  <2> QED  BY <2>1 DEF ResumeTerminal, EnterAlt, Inv, Restored, Left, Modes
<1>8. CASE OpenPicker
  BY <1>8, SetAltKeeps DEF OpenPicker
<1>9. ASSUME NEW ok \in BOOLEAN, Bootstrapped(ok) PROVE Inv'
  BY <1>9, SetAltKeeps, OwnerKeeps DEF Bootstrapped, KeepScreen
<1>10. CASE LoopEnds
  BY <1>10, SetAltKeeps, OwnerKeeps DEF LoopEnds, KeepScreen
<1>11. ASSUME NEW lines \in Texts, NEW cur \in Cursors, NEW force \in BOOLEAN,
              NEW top \in Rows, RenderLines(lines, cur, force, top)
       PROVE  Inv'
  <2> DEFINE on == modes \ {"sync", "hidden"}
  <2>1. modes' \in {modes, on, on \cup {"hidden"}}
    BY <1>11 DEF RenderLines, OnlyPicture
  <2>2. Drawing /\ UNCHANGED <<phase, tty, out, hasOriginal, altFlag>>
    BY <1>11 DEF RenderLines, OnlyPicture
  <2> QED  BY <2>1, <2>2, DrawingKeeps DEF Inv, Modes
<1>12. ASSUME NEW lines \in Texts, NEW top \in Rows, RenderRunsOut(lines, top) PROVE Inv'
  BY <1>12, DrawingKeeps DEF RenderRunsOut, OnlyPicture, Inv
<1>13. ASSUME NEW row \in Rows, DrawRaw(row) \/ HandlerFails(row) PROVE Inv'
  BY <1>13, DrawingKeeps DEF DrawRaw, HandlerFails, OnlyPicture, Inv
<1>14. ASSUME NEW visible \in BOOLEAN, SetCursor(visible) \/ RenderFrame(visible)
       PROVE  Inv'
  <2>1. modes' \subseteq modes \cup {"hidden", "sync"}
    BY <1>14 DEF SetCursor, RenderFrame, OnlyPicture
  <2>2. Drawing /\ UNCHANGED <<phase, tty, out, hasOriginal, altFlag>>
    BY <1>14 DEF SetCursor, RenderFrame, OnlyPicture
  <2> QED  BY <2>1, <2>2, DrawingKeeps DEF Inv, Modes
<1>15. CASE Clear \/ Refresh \/ Write
  <2>1. CASE Clear
    BY <2>1, DrawingKeeps DEF Clear, OnlyPicture, Inv
  <2>2. CASE Refresh
    BY <2>2, DrawingKeeps DEF Refresh, OnlyPicture, Inv
  <2>3. CASE Write
    BY <2>3, DrawingKeeps DEF Write, OnlyPicture, Inv
  <2> QED  BY <1>15, <2>1, <2>2, <2>3
<1>16. CASE UNCHANGED vars
  BY <1>16, OwnerKeeps DEF vars, owner
<1> QED
  BY <1>1, <1>2, <1>3, <1>4, <1>5, <1>6, <1>7, <1>8, <1>9, <1>10, <1>11, <1>12,
     <1>13, <1>14, <1>15, <1>16 DEF Next, CtrlZ, OpenEditor

\* Whenever the shell, an editor or the world after the exit has the
\* terminal, psi_tui_leave_terminal's work has been done on it, for every
\* size of screen and every order of suspends, failed resumes and exits.  Left
\* out, as the code leaves them: psi killed while it has the terminal, and the
\* line discipline after a tcsetattr that failed on leaving.
THEOREM GivenBack == Spec => []OutsideIsRestored
<1>1. Inv => OutsideIsRestored
  BY DEF Inv, OutsideIsRestored, Restored, Left
<1> QED  BY <1>1, InitInv, StepInv, PTL DEF Spec

-----------------------------------------------------------------------------
(* Inside: while the loop runs, the terminal is psi's.                     *)

\* Before the loop the flag and its modes are off, and the loop starts raw.
Owned ==
  /\ phase \in {"start", "ready", "entered"} => ~altFlag /\ modes \cap {"alt", "mouse"} = {}
  /\ phase = "entered" => tty = "raw" /\ "paste" \in modes
  /\ InsideIsOwned

\* Drawing changes nothing that ownership is made of.
LEMMA DrawingOwned ==
  ASSUME Inv, Owned, Drawing, UNCHANGED <<phase, tty, out, altFlag, ui, altPlan, disowned>>,
         "alt" \in modes' <=> "alt" \in modes, "mouse" \in modes' <=> "mouse" \in modes,
         "paste" \in modes' <=> "paste" \in modes
  PROVE  Owned'
  BY DEF Owned, Drawing, InsideIsOwned

LEMMA SetAltOwned ==
  ASSUME Inv, Owned, NEW on \in BOOLEAN, SetAltScreen(on), phase = "running",
         UNCHANGED <<phase, tty, out, altPlan, disowned>>,
         on \/ ui' = "over" \/ altPlan = "picker"
  PROVE  Owned'
  BY DEF Inv, Owned, InsideIsOwned, SetAltScreen, EnterAlt, LeaveAlt

LEMMA OwnerOwned ==
  ASSUME Owned, UNCHANGED <<phase, tty, modes, out, altFlag, altPlan, disowned>>,
         ui = "over" => ui' = "over"
  PROVE  Owned'
  BY DEF Owned, InsideIsOwned

LEMMA StepOwned == Inv /\ Owned /\ [Next]_vars => Owned'
<1> SUFFICES ASSUME Inv, Owned, [Next]_vars PROVE Owned'
  OBVIOUS
<1>1. CASE EnterTerminal
  BY <1>1 DEF EnterTerminal, Owned, InsideIsOwned
<1>2. ASSUME NEW ok \in BOOLEAN, Begin(ok) \/ TakeStdio(ok) PROVE Owned'
  BY <1>2 DEF Begin, TakeStdio, Inv, Owned, InsideIsOwned
<1>3. CASE LeaveTui \/ AtExit \/ Killed
  BY <1>3 DEF LeaveTui, AtExit, Killed, Owned, InsideIsOwned
<1>4. ASSUME NEW to \in {"stopped", "editing"}, NEW ok \in BOOLEAN, SuspendTerminal(to, ok)
      PROVE  Owned'
  BY <1>4 DEF SuspendTerminal, Owned, InsideIsOwned
<1>5. ASSUME NEW raw \in BOOLEAN, NEW guarded \in BOOLEAN,
             Continued(raw, guarded) \/ EditorReturns(raw, guarded)
      PROVE  Owned'
  <2>1. phase \in {"stopped", "editing"} /\ ResumeTerminal(raw, guarded)
    BY <1>5 DEF Continued, EditorReturns
  <2>2. modes = {} /\ altFlag \in BOOLEAN
    BY <2>1 DEF Inv, Restored
  <2>3. CASE guarded
    <3>1. modes' = IF altFlag THEN EnterAlt(modes) ELSE modes \cup {"paste"}
      BY <2>1, <2>3 DEF ResumeTerminal
    <3>2. /\ ("alt" \in modes') = altFlag /\ ("mouse" \in modes') = altFlag
          /\ "paste" \in modes'
      BY <2>2, <3>1 DEF EnterAlt
    <3> QED  BY <2>1, <2>3, <3>2 DEF ResumeTerminal, Owned, InsideIsOwned
  <2> QED  BY <2>1, <2>3 DEF ResumeTerminal, Owned, InsideIsOwned
<1>6. CASE OpenPicker
  BY <1>6, SetAltOwned DEF OpenPicker
<1>7. ASSUME NEW ok \in BOOLEAN, Bootstrapped(ok) PROVE Owned'
  BY <1>7, SetAltOwned, OwnerOwned DEF Bootstrapped, KeepScreen
<1>8. CASE LoopEnds
  BY <1>8, SetAltOwned, OwnerOwned DEF LoopEnds, KeepScreen
<1>9. ASSUME NEW lines \in Texts, NEW cur \in Cursors, NEW force \in BOOLEAN,
             NEW top \in Rows, RenderLines(lines, cur, force, top)
      PROVE  Owned'
  <2> DEFINE on == modes \ {"sync", "hidden"}
  <2>1. modes' \in {modes, on, on \cup {"hidden"}}
    BY <1>9 DEF RenderLines, OnlyPicture
  <2>2. Drawing /\ UNCHANGED <<phase, tty, out, altFlag, ui, altPlan, disowned>>
    BY <1>9 DEF RenderLines, OnlyPicture
  <2> QED  BY <2>1, <2>2, DrawingOwned
<1>10. ASSUME NEW lines \in Texts, NEW top \in Rows, RenderRunsOut(lines, top) PROVE Owned'
  BY <1>10, DrawingOwned DEF RenderRunsOut, OnlyPicture
<1>11. ASSUME NEW row \in Rows, DrawRaw(row) \/ HandlerFails(row) PROVE Owned'
  BY <1>11, DrawingOwned DEF DrawRaw, HandlerFails, OnlyPicture
<1>12. ASSUME NEW visible \in BOOLEAN, SetCursor(visible) \/ RenderFrame(visible)
       PROVE  Owned'
  BY <1>12, DrawingOwned DEF SetCursor, RenderFrame, OnlyPicture
<1>13. CASE Clear \/ Refresh \/ Write
  BY <1>13, DrawingOwned DEF Clear, Refresh, Write, OnlyPicture
<1>14. CASE UNCHANGED vars
  BY <1>14, OwnerOwned DEF vars, owner
<1> QED
  BY <1>1, <1>2, <1>3, <1>4, <1>5, <1>6, <1>7, <1>8, <1>9, <1>10, <1>11, <1>12,
     <1>13, <1>14 DEF Next, CtrlZ, OpenEditor

LEMMA InitOwned == Init => Owned
  BY DEF Init, Owned, InsideIsOwned

\* While the loop runs, the tty is raw, stray output goes to the log and the
\* C flag (psi_tui_alt_screen_active) says what the terminal shows, through
\* pickers, suspends and editors; only a half-failed suspend or resume excuses it.
\* So is bracketed paste on, unless a picker was there before the loop.
THEOREM OwnedInside == Spec => []InsideIsOwned
<1>1. Owned => InsideIsOwned
  BY DEF Owned
<1> QED  BY <1>1, InitInv, StepInv, InitOwned, StepOwned, PTL DEF Spec

-----------------------------------------------------------------------------
(* The screen: what the cache of the last frame may be trusted for.        *)

Views == [top : Rows, lines : Texts \cup {<<>>}, cursor : Cursors \cup {NoCursor}]

\* Drawn lines lie inside the rows the cache speaks of, wherever it came from.
LinesInView ==
  \A r \in Rows : screen[r] \in Lines => r - cache.top + 1 \in DOMAIN cache.lines

\* As long as nothing else wrote, those rows show the cached lines (but for
\* the torn ones) and the cursor is where the cache says.
Vouched ==
  /\ frame = cache \/ frame = Torn
  /\ \A i \in DOMAIN cache.lines \ torn : screen[cache.top + i - 1] = cache.lines[i]
  /\ cache.cursor.visible = ("hidden" \notin modes)
  /\ cache.cursor.visible => cursor = cache.top + cache.cursor.row - 1

\* An open synchronized update means the last frame is no longer vouched for,
\* and so does anything but the loop; an editor leaves no drawn line behind.
Picture ==
  /\ screen \in [Rows -> Lines \cup {Blank, Junk}] /\ cache \in Views
  /\ LinesInView
  /\ phase = "running" /\ ~disowned /\ frame # Lost => Vouched
  /\ "sync" \in modes => frameActive /\ frame = Lost
  /\ phase \notin {"running", "leaving", "ended", "killed"} => frame = Lost
  /\ phase = "editing" => \A r \in Rows : screen[r] \notin Lines

\* A frame has between one and MaxLines lines.
LEMMA TextIsLines ==
  ASSUME NEW t \in Texts
  PROVE  /\ t \in Seq(Lines \cup {Blank}) /\ Len(t) \in 1 .. MaxLines
         /\ DOMAIN t = 1 .. Len(t) /\ t # <<>>
<1>1. PICK n \in 1 .. MaxLines : t \in [1 .. n -> Lines \cup {Blank}]
  BY DEF Texts
<1>2. n \in Nat /\ MaxLines \in Nat
  BY TerminalAssumption
<1>3. t \in Seq(Lines \cup {Blank}) /\ Len(t) = n /\ DOMAIN t = 1 .. n
  BY <1>1, <1>2
<1> QED  BY <1>2, <1>3

LEMMA LinesAreText ==
  ASSUME NEW n \in 1 .. MaxLines, NEW f \in [1 .. n -> Lines \cup {Blank}]
  PROVE  f \in Texts
  BY DEF Texts

\* What the cache holds of a text, an empty cache included.
LEMMA CacheIsLines ==
  ASSUME NEW c \in Views
  PROVE  /\ c.top \in 1 .. Height /\ Len(c.lines) \in Nat
         /\ DOMAIN c.lines = 1 .. Len(c.lines)
         /\ c.lines # <<>> => c.lines \in Texts
  BY TextIsLines, TerminalAssumption DEF Views, Rows

LEMMA EmptyIsView == Empty \in Views
  BY TerminalAssumption DEF Empty, Views, Rows

\* Output that the cache does not know of, and what drops or keeps the cache
\* with it: nothing drawn remains but what was drawn before.
LEMMA LostKeeps ==
  ASSUME Picture, frame' = Lost, cache' = cache \/ cache' = Empty,
         screen' \in [Rows -> Lines \cup {Blank, Junk}],
         \A r \in Rows : screen'[r] \in Lines => screen'[r] = screen[r] /\ cache' = cache,
         "sync" \in modes' => frameActive',
         phase' = "editing" => \A r \in Rows : screen'[r] \notin Lines
  PROVE  Picture'
<1>1. cache' \in Views
  BY EmptyIsView DEF Picture
<1>2. LinesInView'
  BY DEF Picture, LinesInView
<1> QED  BY <1>1, <1>2 DEF Picture

\* A step that neither draws nor vouches for anything.
LEMMA QuietKeeps ==
  ASSUME Picture, UNCHANGED <<screen, cursor, cache, frame, torn, frameActive>>,
         phase' # "editing",
         phase' = "running" =>
           (phase = "running" /\ UNCHANGED <<modes, disowned>>) \/ frame = Lost,
         phase' \notin {"running", "leaving", "ended", "killed"} => frame = Lost,
         "sync" \in modes' => "sync" \in modes
  PROVE  Picture'
  BY DEF Picture, LinesInView, Vouched

\* A cursor put over n lines stays among them.
LEMMA ClampedCursor ==
  ASSUME NEW cur \in Cursors, NEW n \in 1 .. MaxLines
  PROVE  /\ [cur EXCEPT !.row = Clamp(cur.row, n)] \in Cursors
         /\ [cur EXCEPT !.row = Clamp(cur.row, n)].visible \in BOOLEAN
<1>1. MaxLines \in Nat /\ n \in 1 .. MaxLines
  BY TerminalAssumption
<1>2. ASSUME NEW x, NEW c \in [row : 1 .. MaxLines, visible : BOOLEAN]
      PROVE  [c EXCEPT !.row = x] = [row |-> x, visible |-> c.visible]
  OBVIOUS
<1>3. /\ cur \in [row : 1 .. MaxLines, visible : BOOLEAN]
      /\ cur.visible = TRUE \/ cur.row = 1
  <2>1. CASE cur \in [row : 1 .. MaxLines, visible : {TRUE}]
    <3>1. cur.visible = TRUE
      BY <2>1
    <3>2. [row : 1 .. MaxLines, visible : {TRUE}] \subseteq [row : 1 .. MaxLines, visible : BOOLEAN]
      OBVIOUS
    <3> QED  BY <2>1, <3>1, <3>2
  <2>2. CASE cur \in [row : {1}, visible : {FALSE}]
    <3>1. cur.row = 1
      BY <2>2
    <3>2. 1 \in 1 .. MaxLines
      BY <1>1
    <3>3. [row : {1}, visible : {FALSE}] \subseteq [row : 1 .. MaxLines, visible : BOOLEAN]
      BY <3>2
    <3> QED  BY <2>2, <3>1, <3>3
  <2> QED  BY <2>1, <2>2 DEF Cursors
<1>4. /\ Clamp(cur.row, n) \in 1 .. MaxLines
      /\ cur.visible = TRUE \/ Clamp(cur.row, n) = 1
  BY <1>1, <1>3 DEF Clamp
<1>5. [cur EXCEPT !.row = Clamp(cur.row, n)]
        = [row |-> Clamp(cur.row, n), visible |-> cur.visible]
  BY <1>2, <1>3
<1>6. cur.visible \in BOOLEAN
  BY <1>3
<1>7. [row |-> Clamp(cur.row, n), visible |-> cur.visible] \in Cursors
  BY <1>4, <1>6 DEF Cursors
<1> QED  BY <1>5, <1>6, <1>7

\* A frame: what the cache let it skip was on the screen already, and what an
\* older frame left outside it is cleared.
LEMMA RenderKeeps ==
  ASSUME Picture, NEW lines \in Texts, NEW cur \in Cursors, NEW force \in BOOLEAN,
         NEW top \in Rows, RenderLines(lines, cur, force, top)
  PROVE  Picture'
<1> DEFINE draw == ToDraw(lines, top, force)
           clear == ToClear(lines, top, force)
           at == [cur EXCEPT !.row = Clamp(cur.row, Len(lines))]
           output == \/ FullRedraw(lines, top, force)
                     \/ cache.cursor # at
                     \/ draw # {}
<1>1. /\ phase = "running" /\ phase' = "running" /\ disowned' = disowned
      /\ top + Len(lines) - 1 <= Height
      /\ force \/ frame # Lost \/ cache.lines = <<>>
      /\ screen' = Painted(lines, top, draw, clear)
      /\ cursor' = IF output /\ at.visible THEN top + at.row - 1 ELSE cursor
      /\ modes' = IF ~output THEN modes
                  ELSE (modes \ {"sync", "hidden"})
                         \cup (IF at.visible THEN {} ELSE {"hidden"})
      /\ cache' = [top |-> top, lines |-> lines, cursor |-> at]
      /\ frame' = cache'
      /\ torn' = IF FullRedraw(lines, top, force) THEN {} ELSE torn \ draw
  BY DEF RenderLines, Drawing, OnlyPicture
<1>2. /\ Height \in Nat /\ top \in 1 .. Height
      /\ Len(lines) \in 1 .. MaxLines /\ DOMAIN lines = 1 .. Len(lines)
      /\ \A i \in DOMAIN lines : lines[i] \in Lines \cup {Blank}
  BY TextIsLines, TerminalAssumption DEF Rows
<1>3. at \in Cursors /\ at.visible \in BOOLEAN
  BY <1>2, ClampedCursor
<1>4. /\ cache \in Views /\ cache.top \in 1 .. Height /\ Len(cache.lines) \in Nat
      /\ DOMAIN cache.lines = 1 .. Len(cache.lines)
  BY CacheIsLines DEF Picture
<1>5. draw \subseteq DOMAIN lines
  BY DEF ToDraw, Changed
<1>6. \A r \in Rows : r - top + 1 \notin DOMAIN lines /\ r \notin clear
                        => r - cache.top + 1 \notin DOMAIN cache.lines
  <2> SUFFICES ASSUME NEW r \in Rows, r - top + 1 \notin DOMAIN lines, r \notin clear,
                      r - cache.top + 1 \in DOMAIN cache.lines
               PROVE  FALSE
    OBVIOUS
  <2>1. r \in Int
    BY DEF Rows
  <2>2. r \in OldViewport
    <3>1. r = cache.top + (r - cache.top + 1) - 1
      BY <1>4, <2>1
    <3> QED  BY <3>1 DEF OldViewport
  <2>3. cache.top = top /\ Len(cache.lines) = Len(lines)
    BY <2>2 DEF ToClear, FullRedraw, Reused
  <2> QED  BY <1>2, <1>4, <2>3
<1>7. screen' \in [Rows -> Lines \cup {Blank, Junk}]
  BY <1>1, <1>2, <1>5 DEF Painted, Picture
<1>8. LinesInView'
  <2> SUFFICES ASSUME NEW r \in Rows, screen'[r] \in Lines, r - top + 1 \notin DOMAIN lines
               PROVE  FALSE
    BY <1>1 DEF LinesInView
  <2>1. screen'[r] = IF r \in clear THEN Blank ELSE screen[r]
    BY <1>1, <1>5 DEF Painted
  <2>2. r \notin clear /\ screen[r] \in Lines
    BY <2>1, TerminalAssumption
  <2> QED  BY <1>6, <2>2 DEF Picture, LinesInView
<1>9. ~FullRedraw(lines, top, force) =>
        /\ cache.top = top /\ DOMAIN cache.lines = DOMAIN lines
        /\ frame # Lost /\ clear = {} /\ draw = Changed(lines)
  BY <1>1, <1>2, <1>4 DEF FullRedraw, Reused, ToClear, ToDraw
<1>10. "sync" \notin modes'
  <2>1. CASE output
    BY <1>1, <2>1
  <2>2. CASE ~output
    BY <1>1, <1>9, <2>2 DEF Picture
  <2> QED  BY <2>1, <2>2
<1>11. ASSUME ~disowned PROVE Vouched'
  <2>1. \A i \in DOMAIN lines \ torn' : screen'[top + i - 1] = lines[i]
    <3> SUFFICES ASSUME NEW i \in DOMAIN lines, i \notin torn'
                 PROVE  screen'[top + i - 1] = lines[i]
      OBVIOUS
    <3>1. i \in 1 .. Len(lines) /\ top + i - 1 \in Rows /\ (top + i - 1) - top + 1 = i
      BY <1>1, <1>2 DEF Rows
    <3>2. screen'[top + i - 1] = IF i \in draw THEN lines[i]
                                 ELSE IF top + i - 1 \in clear THEN Blank
                                 ELSE screen[top + i - 1]
      BY <1>1, <3>1 DEF Painted
    <3>3. CASE i \in draw
      BY <3>2, <3>3
    <3>4. CASE i \notin draw
      <4>1. ~FullRedraw(lines, top, force)
        BY <3>4 DEF ToDraw
      <4>2. i \notin torn /\ cache.lines[i] = lines[i]
        BY <1>1, <1>9, <3>4, <4>1 DEF Changed
      <4>3. screen[top + i - 1] = cache.lines[i]
        BY <1>1, <1>9, <1>11, <4>1, <4>2 DEF Picture, Vouched
      <4> QED  BY <1>9, <3>2, <3>4, <4>1, <4>2, <4>3
    <3> QED  BY <3>3, <3>4
  <2>2. at.visible = ("hidden" \notin modes')
    <3>1. CASE output
      BY <1>1, <1>3, <3>1
    <3>2. CASE ~output
      BY <1>1, <1>9, <1>11, <3>2 DEF Picture, Vouched
    <3> QED  BY <3>1, <3>2
  <2>3. at.visible => cursor' = top + at.row - 1
    <3>1. CASE output
      BY <1>1, <3>1
    <3>2. CASE ~output
      BY <1>1, <1>9, <1>11, <3>2 DEF Picture, Vouched
    <3> QED  BY <3>1, <3>2
  <2> QED  BY <1>1, <2>1, <2>2, <2>3 DEF Vouched
<1>12. cache' \in Views
  BY <1>1, <1>3 DEF Views
<1> QED  BY <1>1, <1>7, <1>8, <1>10, <1>11, <1>12 DEF Picture

\* A frame that ran out of memory: the cache runs ahead of the screen in the
\* lines that are torn from now on, and nowhere else.
LEMMA RunsOutKeeps ==
  ASSUME Picture, NEW lines \in Texts, NEW top \in Rows, RenderRunsOut(lines, top)
  PROVE  Picture'
<1>1. PICK i \in Changed(lines) :
        /\ cache' = [cache EXCEPT !.lines =
                       [j \in DOMAIN lines |-> IF j < i THEN lines[j] ELSE cache.lines[j]]]
        /\ torn' = torn \cup {j \in Changed(lines) : j < i}
  BY DEF RenderRunsOut
<1> DEFINE kept == [j \in DOMAIN lines |-> IF j < i THEN lines[j] ELSE cache.lines[j]]
<1>2. /\ phase = "running" /\ phase' = "running" /\ disowned' = disowned /\ modes' = modes
      /\ frame # Lost /\ frame' = Torn /\ Reused(lines)
      /\ UNCHANGED <<screen, cursor, frameActive>>
  BY DEF RenderRunsOut, Drawing, OnlyPicture
<1>3. /\ cache \in Views /\ cache.lines \in Texts
      /\ DOMAIN cache.lines = DOMAIN lines
  BY <1>2, CacheIsLines, TextIsLines DEF Reused, Picture
<1>4. /\ cache'.top = cache.top /\ cache'.lines = kept /\ cache'.cursor = cache.cursor
      /\ cache' = [top |-> cache.top, lines |-> kept, cursor |-> cache.cursor]
  BY <1>1, <1>3 DEF Views
<1>5. kept \in Texts /\ DOMAIN kept = DOMAIN lines
  <2>1. Len(lines) \in 1 .. MaxLines /\ DOMAIN lines = 1 .. Len(lines)
    BY TextIsLines
  <2>2. \A j \in DOMAIN lines : /\ lines[j] \in Lines \cup {Blank}
                                /\ cache.lines[j] \in Lines \cup {Blank}
    BY <1>3, TextIsLines
  <2>3. kept \in [1 .. Len(lines) -> Lines \cup {Blank}]
    BY <2>1, <2>2
  <2> QED  BY <2>1, <2>3, LinesAreText
<1>6. cache' \in Views
  BY <1>3, <1>4, <1>5 DEF Views
<1>7. LinesInView'
  BY <1>2, <1>3, <1>4, <1>5 DEF Picture, LinesInView
<1>8. ASSUME ~disowned PROVE Vouched'
  <2>1. Vouched
    BY <1>2, <1>8 DEF Picture
  <2>2. \A j \in DOMAIN kept \ torn' : screen[cache.top + j - 1] = kept[j]
    <3> SUFFICES ASSUME NEW j \in DOMAIN lines, j \notin torn'
                 PROVE  screen[cache.top + j - 1] = kept[j]
      BY <1>5
    <3>1. j \notin torn /\ (j < i => cache.lines[j] = lines[j])
      BY <1>1 DEF Changed
    <3>2. screen[cache.top + j - 1] = cache.lines[j]
      BY <1>3, <2>1, <3>1 DEF Vouched
    <3> QED  BY <3>1, <3>2
  <2> QED  BY <1>2, <1>4, <2>1, <2>2 DEF Vouched
<1> QED
  BY <1>2, <1>6, <1>7, <1>8 DEF Picture

LEMMA InitPicture == Init => Picture
  BY EmptyIsView, TerminalAssumption DEF Init, Picture, LinesInView

LEMMA SetAltPicture ==
  ASSUME Picture, NEW on \in BOOLEAN, SetAltScreen(on), phase' = "running",
         UNCHANGED <<cache, frameActive>>
  PROVE  Picture'
<1>1. "sync" \in modes' => "sync" \in modes
  BY DEF SetAltScreen, EnterAlt, LeaveAlt
<1> QED
  BY <1>1, LostKeeps, TerminalAssumption DEF SetAltScreen, Picture

LEMMA StepPicture == Inv /\ Owned /\ Picture /\ [Next]_vars => Picture'
<1> SUFFICES ASSUME Inv, Owned, Picture, [Next]_vars PROVE Picture'
  OBVIOUS
<1>a. Blank \notin Lines /\ Junk \notin Lines
  BY TerminalAssumption
<1>1. CASE EnterTerminal
  BY <1>1, QuietKeeps DEF EnterTerminal, picture, Picture
<1>2. ASSUME NEW ok \in BOOLEAN, Begin(ok) \/ TakeStdio(ok) PROVE Picture'
  <2>1. CASE Begin(ok)
    BY <2>1, QuietKeeps DEF Begin, picture, Picture
  <2>2. CASE TakeStdio(ok)
    <3>1. "sync" \in modes' => "sync" \in modes
      BY <2>2 DEF TakeStdio, LeaveTerminal, Leave, LeaveAlt, LeaveInline
    <3> QED  BY <2>2, <3>1, QuietKeeps DEF TakeStdio, picture, Picture
  <2> QED  BY <1>2, <2>1, <2>2
<1>3. CASE LeaveTui \/ AtExit
  <2>1. "sync" \in modes' => "sync" \in modes
    BY <1>3 DEF LeaveTui, AtExit, LeaveTerminal, Leave, LeaveAlt, LeaveInline
  <2>2. /\ phase \in {"running", "leaving"} /\ phase' \in {"leaving", "ended"}
        /\ UNCHANGED picture
    BY <1>3 DEF LeaveTui, AtExit
  <2> QED  BY <2>1, <2>2, QuietKeeps DEF picture, Picture
<1>4. CASE Killed
  BY <1>4, QuietKeeps DEF Killed, picture, Picture
<1>5. ASSUME NEW to \in {"stopped", "editing"}, NEW ok \in BOOLEAN, SuspendTerminal(to, ok)
      PROVE  Picture'
  <2>1. "sync" \notin modes'
    BY <1>5, LeaveClears DEF SuspendTerminal
  <2> QED  BY <1>5, <1>a, <2>1, LostKeeps DEF SuspendTerminal, Scribbled
<1>6. ASSUME NEW raw \in BOOLEAN, NEW guarded \in BOOLEAN,
             Continued(raw, guarded) \/ EditorReturns(raw, guarded)
      PROVE  Picture'
  <2>1. /\ phase \in {"stopped", "editing"} /\ ResumeTerminal(raw, guarded)
        /\ cache' = cache \/ (phase = "editing" /\ cache' = Empty)
    BY <1>6 DEF Continued, EditorReturns
  <2>2. "sync" \notin modes'
    BY <2>1 DEF ResumeTerminal, EnterAlt, Inv, Restored
  <2>3. frame' = Lost /\ phase' = "running" /\ screen' = screen
    BY <2>1 DEF ResumeTerminal, Picture
  <2> QED  BY <2>1, <2>2, <2>3, LostKeeps DEF Picture
<1>7. CASE OpenPicker
  BY <1>7, SetAltPicture DEF OpenPicker
<1>8. ASSUME NEW ok \in BOOLEAN, Bootstrapped(ok) PROVE Picture'
  <2>1. /\ phase = "running" /\ UNCHANGED <<phase, disowned, cache, frameActive, torn>>
        /\ SetAltScreen(FALSE) \/ KeepScreen
    BY <1>8 DEF Bootstrapped
  <2> QED  BY <2>1, SetAltPicture, QuietKeeps DEF KeepScreen
<1>9. CASE LoopEnds
  <2>1. /\ phase = "running" /\ UNCHANGED <<phase, disowned, cache, frameActive, torn>>
        /\ SetAltScreen(FALSE) \/ KeepScreen
    BY <1>9 DEF LoopEnds
  <2> QED  BY <2>1, SetAltPicture, QuietKeeps DEF KeepScreen
<1>10. ASSUME NEW lines \in Texts, NEW cur \in Cursors, NEW force \in BOOLEAN,
              NEW top \in Rows, RenderLines(lines, cur, force, top)
       PROVE  Picture'
  BY <1>10, RenderKeeps
<1>11. ASSUME NEW lines \in Texts, NEW top \in Rows, RenderRunsOut(lines, top) PROVE Picture'
  BY <1>11, RunsOutKeeps
<1>12. ASSUME NEW row \in Rows, DrawRaw(row) PROVE Picture'
  BY <1>12, <1>a, LostKeeps DEF DrawRaw, Drawing, OnlyPicture, Picture
<1>13. ASSUME NEW row \in Rows, HandlerFails(row) PROVE Picture'
  <2>1. /\ phase = "running" /\ phase' = "running"
        /\ screen' = IF out = "tty" THEN [screen EXCEPT ![row] = Junk] ELSE screen
        /\ UNCHANGED <<modes, disowned, cursor, cache, frame, frameActive, torn>>
    BY <1>13 DEF HandlerFails, Drawing, OnlyPicture
  <2>2. CASE ~disowned
    <3>1. screen' = screen
      BY <2>1, <2>2 DEF Owned, InsideIsOwned
    <3> QED  BY <2>1, <3>1, QuietKeeps
  <2>3. CASE disowned
    <3>1. /\ screen' \in [Rows -> Lines \cup {Blank, Junk}]
          /\ \A r \in Rows : screen'[r] \in Lines => screen'[r] = screen[r]
      BY <1>a, <2>1 DEF Picture
    <3> QED  BY <2>1, <2>3, <3>1 DEF Picture, LinesInView
  <2> QED  BY <2>2, <2>3 DEF Owned
<1>14. ASSUME NEW visible \in BOOLEAN, SetCursor(visible) \/ RenderFrame(visible)
       PROVE  Picture'
  <2>1. CASE SetCursor(visible)
    <3>1. "sync" \in modes' => frameActive'
      BY <2>1 DEF SetCursor, OnlyPicture, Picture
    <3> QED  BY <2>1, <3>1, LostKeeps DEF SetCursor, Drawing, OnlyPicture, Picture
  <2>2. CASE RenderFrame(visible)
    <3>1. "sync" \notin modes'
      BY <2>2 DEF RenderFrame, OnlyPicture
    <3> QED
      BY <2>2, <3>1, <1>a, LostKeeps DEF RenderFrame, Scribbled, Drawing, OnlyPicture, Picture
  <2> QED  BY <1>14, <2>1, <2>2
<1>15. CASE Clear \/ Write
  BY <1>15, <1>a, LostKeeps DEF Clear, Write, Scribbled, Drawing, OnlyPicture, Picture
<1>16. CASE Refresh
  <2>1. /\ phase = "running" /\ phase' = "running" /\ modes' = modes \ {"sync"}
        /\ UNCHANGED <<disowned, screen, cursor, cache, frame, torn>>
    BY <1>16 DEF Refresh, Drawing, OnlyPicture
  <2>2. LinesInView' /\ (Vouched => Vouched')
    BY <2>1 DEF Picture, LinesInView, Vouched
  <2> QED  BY <2>1, <2>2 DEF Picture
<1>17. CASE UNCHANGED vars
  BY <1>17 DEF vars, owner, picture, Picture, LinesInView, Vouched
<1> QED
  BY <1>1, <1>2, <1>3, <1>4, <1>5, <1>6, <1>7, <1>8, <1>9, <1>10, <1>11, <1>12,
     <1>13, <1>14, <1>15, <1>16, <1>17 DEF Next, CtrlZ, OpenEditor

\* After render_lines the screen shows the frame that was asked for, with its
\* cursor and nothing of an earlier frame, and a synchronized update can always
\* be ended: for every size of screen and of frame, and whatever Ctrl-Z, an
\* editor, a picker, raw output or a failed allocation came between.
THEOREM Shown == Spec => []FrameIsShown
<1>1. Picture => FrameIsShown
  <2> SUFFICES ASSUME Picture, phase = "running", ~disowned, frame \notin {Lost, Torn}
               PROVE  /\ \A i \in DOMAIN frame.lines \ torn :
                           screen[frame.top + i - 1] = frame.lines[i]
                      /\ \A r \in Rows : r - frame.top + 1 \notin DOMAIN frame.lines =>
                           screen[r] \notin Lines
                      /\ frame.cursor.visible = ("hidden" \notin modes)
                      /\ frame.cursor.visible => cursor = frame.top + frame.cursor.row - 1
    BY DEF Picture, FrameIsShown
  <2>1. Vouched /\ frame = cache
    BY DEF Picture, Vouched
  <2> QED  BY <2>1 DEF Picture, LinesInView, Vouched
<1> QED  BY <1>1, InitInv, StepInv, InitOwned, StepOwned, InitPicture, StepPicture, PTL DEF Spec

-----------------------------------------------------------------------------
(* Command lines: the loops, as functions.                                 *)

TextIn == text \in Seq(UNION Alphabets) /\ alphabet \in Alphabets

LEMMA TextType == TextSpec => []TextIn
<1>1. TextInit => TextIn
  BY DEF TextInit, TextIn
<1>2. TextIn /\ [TextNext]_textVars => TextIn'
  BY DEF TextIn, TextNext, textVars
<1> QED
  BY <1>1, <1>2, PTL DEF TextSpec

\* The passes of a loop over 1..n, and the one before each.
LEMMA PassesOf ==
  ASSUME NEW n \in Nat
  PROVE  /\ 0 \in 0 .. n /\ \A k \in 1 .. n : k \in 0 .. n /\ k - 1 \in 0 .. n
OBVIOUS

\* What arguments and lines are made of.
Letters == {"n", " ", "/c", Slash, Quote}
Escapes == [out : Seq(Letters), slashes : Nat]
Scans == [args : Seq(Seq(Letters)), arg : Seq(Letters), begun : BOOLEAN,
          quoted : BOOLEAN, slashes : Nat]

LEMMA LettersAre == /\ " " \in Letters /\ Quote \in Letters /\ Slash \in Letters
                    /\ " " # Quote /\ " " # Slash /\ Quote # Slash
BY DEF Letters, Quote, Slash

LEMMA OneLetter ==
  ASSUME NEW ch \in Letters
  PROVE  /\ <<ch>> \in Seq(Letters) /\ Len(<<ch>>) = 1
         /\ \A s \in Seq(Letters) : s \o <<ch>> = Append(s, ch)
<1>1. <<ch>> \in Seq(Letters) /\ Len(<<ch>>) = 1
  OBVIOUS
<1>2. \A s \in Seq(Letters) : s \o <<ch>> = Append(s, ch)
  BY AppendIsConcat
<1> QED
  BY <1>1, <1>2

LEMMA SlashesIs ==
  ASSUME NEW n \in Nat
  PROVE  /\ Slashes(n) \in Seq(Letters) /\ Len(Slashes(n)) = n
         /\ \A i \in 1 .. n : Slashes(n)[i] = Slash
<1> DEFINE s == Slashes(n)
<1>1. s \in [1 .. n -> Letters] /\ \A i \in 1 .. n : s[i] = Slash
  BY LettersAre DEF Slashes
<1> HIDE DEF s
<1>2. s \in Seq(Letters) /\ Len(s) = n
  BY <1>1
<1> QED
  BY <1>1, <1>2 DEF s

LEMMA SlashesNone == Slashes(0) = << >>
<1>1. Slashes(0) \in Seq(Letters) /\ Len(Slashes(0)) = 0
  BY SlashesIs
<1> QED
  BY <1>1, EmptySeq

\* One more backslash.
LEMMA SlashesMore ==
  ASSUME NEW n \in Nat
  PROVE  Slashes(n + 1) = Append(Slashes(n), Slash)
<1> DEFINE a == Slashes(n + 1)
           b == Append(Slashes(n), Slash)
<1>1. a \in Seq(Letters) /\ Len(a) = n + 1 /\ \A i \in 1 .. n + 1 : a[i] = Slash
  <2>1. n + 1 \in Nat
    OBVIOUS
  <2> QED
    BY <2>1, SlashesIs
<1>2. Slashes(n) \in Seq(Letters) /\ Len(Slashes(n)) = n /\ \A i \in 1 .. n : Slashes(n)[i] = Slash
  BY SlashesIs
<1>4. /\ b \in Seq(Letters) /\ Len(b) = n + 1 /\ b[n + 1] = Slash
      /\ \A i \in 1 .. n : b[i] = Slash
  <2> HIDE DEF a
  <2>1. /\ Append(Slashes(n), Slash) \in Seq(Letters)
        /\ Len(Append(Slashes(n), Slash)) = Len(Slashes(n)) + 1
        /\ Append(Slashes(n), Slash)[Len(Slashes(n)) + 1] = Slash
        /\ \A i \in 1 .. Len(Slashes(n)) : Append(Slashes(n), Slash)[i] = Slashes(n)[i]
    <3>1. Slashes(n) \in Seq(Letters) /\ Slash \in Letters
      BY <1>2, LettersAre
    <3> QED
      BY <3>1, AppendPoints
  <2> QED
    BY <1>2, <2>1
<1> HIDE DEF a, b
<1>5. \A i \in 1 .. n + 1 : a[i] = b[i]
  <2> TAKE i \in 1 .. n + 1
  <2>1. i = n + 1 \/ i \in 1 .. n
    OBVIOUS
  <2> QED
    BY <1>1, <1>4, <2>1
<1> QED
  BY <1>1, <1>4, <1>5, SeqEqual DEF a, b

LEMMA Join ==
  ASSUME NEW s \in Seq(Letters), NEW t \in Seq(Letters)
  PROVE  s \o t \in Seq(Letters)
BY ConcatPoints

\* A pass of the loop that quotes keeps its type.
LEMMA EscapeType ==
  ASSUME NEW ch \in Letters, NEW c \in Escapes
  PROVE  Escape(c, ch) \in Escapes
<1>1. c.out \in Seq(Letters) /\ c.slashes \in Nat
  BY DEF Escapes
<1>2. CASE ch = Slash
  <2>1. Escape(c, ch) = [c EXCEPT !.slashes = c.slashes + 1]
    BY <1>2 DEF Escape
  <2> QED
    BY <1>1, <2>1 DEF Escapes
<1>3. CASE ch # Slash
  <2> DEFINE n == IF ch = Quote THEN 2 * c.slashes + 1 ELSE c.slashes
             said == c.out \o Slashes(n) \o <<ch>>
  <2>1. n \in Nat
    BY <1>1
  <2>2. Escape(c, ch) = [out |-> said, slashes |-> 0]
    BY <1>3 DEF Escape
  <2> HIDE DEF n
  <2>3. Slashes(n) \in Seq(Letters)
    BY <2>1, SlashesIs
  <2>4. said \in Seq(Letters)
    BY <1>1, <2>3, Join, OneLetter
  <2> HIDE DEF said
  <2> QED
    BY <2>2, <2>4 DEF Escapes
<1> QED
  BY <1>2, <1>3

\* The loop over an argument.
LEMMA EscapedIs ==
  ASSUME NEW arg \in Seq(Letters)
  PROVE  \E f \in [0 .. Len(arg) -> Escapes] :
           /\ f[0] = [out |-> << >>, slashes |-> 0] /\ Escaped(arg) = f[Len(arg)]
           /\ \A n \in 1 .. Len(arg) : f[n] = Escape(f[n - 1], arg[n])
<1> DEFINE N == Len(arg)
           S == Escapes
           start == [out |-> << >>, slashes |-> 0]
           step == [q \in (1 .. N) \X S |-> Escape(q[2], arg[q[1]])]
           Eqn(f) == f = [n \in 0 .. N |-> IF n = 0 THEN start ELSE Escape(f[n - 1], arg[n])]
           after == CHOOSE f : Eqn(f)
<1>0. N \in Nat
  BY PointsOf
<1>1. start \in S
  BY EmptySeq DEF Escapes
<1>2. \A n \in 1 .. N, v \in S : Escape(v, arg[n]) \in S
  BY PointsOf, EscapeType
<1> HIDE DEF S, start
<1>3. step \in [(1 .. N) \X S -> S]
  <2>1. \A q \in (1 .. N) \X S : Escape(q[2], arg[q[1]]) \in S
    BY <1>2
  <2> QED
    BY <2>1
<1>4. PICK g : IteratesIn(g, N, S, start, step)
  <2> HIDE DEF step, N
  <2>1. \E f : IteratesIn(f, N, S, start, step)
    BY <1>0, <1>1, <1>3, IterationIn
  <2> QED
    BY <2>1
<1>5. \A n \in 1 .. N : g[n] = Escape(g[n - 1], arg[n])
  <2> TAKE n \in 1 .. N
  <2>1. n - 1 \in 0 .. N
    BY <1>0
  <2>2. <<n, g[n - 1]>> \in (1 .. N) \X S
    BY <1>4, <2>1 DEF IteratesIn
  <2> QED
    BY <1>4, <2>2 DEF IteratesIn
<1>6. Eqn(g)
  <2>1. \A n \in 0 .. N : n # 0 => n \in 1 .. N
    BY <1>0
  <2>2. \A n \in 0 .. N : g[n] = IF n = 0 THEN start ELSE Escape(g[n - 1], arg[n])
    <3> HIDE DEF N, step
    <3> QED
      BY <1>4, <1>5, <2>1 DEF IteratesIn
  <2> QED
    BY <1>4, <2>2 DEF IteratesIn
<1>7. Eqn(after)
  <2> HIDE DEF Eqn
  <2> QED
    BY <1>6
<1>8. Escaped(arg) = after[N]
  BY DEF Escaped, start
<1>9. /\ after[0] = start
      /\ \A n \in 1 .. N : after[n] = Escape(after[n - 1], arg[n])
  <2>1. 0 \in 0 .. N /\ \A n \in 1 .. N : n \in 0 .. N /\ n # 0
    BY <1>0
  <2> HIDE DEF after, N
  <2> QED
    BY <1>7, <2>1
<1>10. \A n \in 0 .. N : after[n] \in S
  <2> DEFINE X == [n \in 0 .. N |-> S]
  <2>1. /\ 0 \in 0 .. N /\ \A n \in 1 .. N : n \in 0 .. N /\ n - 1 \in 0 .. N
    <3> HIDE DEF N, S, start, step, after
    <3> QED
      BY <1>0, PassesOf, ZenonT(60)
  <2>2. after[0] \in X[0]
    <3> HIDE DEF N, S, start, step, after
    <3> QED
      BY <1>1, <1>9, <2>1, SMTT(60)
  <2> HIDE DEF after
  <2>3. ASSUME NEW n \in 1 .. N, after[n - 1] \in X[n - 1] PROVE after[n] \in X[n]
    BY <1>2, <1>9, <2>1, <2>3
  <2>4. \A n \in 0 .. N : after[n] \in X[n]
    <3> HIDE DEF X, N
    <3> QED
      BY <1>0, <2>2, <2>3, Induct
  <2> QED
    BY <2>4
<1>11. after \in [0 .. N -> S]
  <2> HIDE DEF S, N
  <2>1. after = [n \in 0 .. N |-> after[n]]
    <3> HIDE DEF after
    <3> QED
      BY <1>7
  <2> HIDE DEF after
  <2> QED
    BY <1>10, <2>1
<1> HIDE DEF after
<1> QED
  BY <1>8, <1>9, <1>11 DEF S, start

\* Quoting makes a text of letters.
LEMMA QuotedType ==
  ASSUME NEW arg \in Seq(Letters)
  PROVE  Quoted(arg) \in Seq(Letters) /\ Escaped(arg) \in Escapes
<1>2. Escaped(arg) \in Escapes
  <2>1. PICK f \in [0 .. Len(arg) -> Escapes] : Escaped(arg) = f[Len(arg)]
    BY EscapedIs
  <2>2. Len(arg) \in 0 .. Len(arg)
    BY PointsOf
  <2> QED
    BY <2>1, <2>2
<1>3. Escaped(arg).out \in Seq(Letters) /\ Escaped(arg).slashes \in Nat
  BY <1>2 DEF Escapes
<1>4. 2 * Escaped(arg).slashes \in Nat
  BY <1>3
<1>5. Slashes(2 * Escaped(arg).slashes) \in Seq(Letters)
  BY <1>4, SlashesIs
<1>6. <<Quote>> \in Seq(Letters)
  BY LettersAre, OneLetter
<1>7. <<Quote>> \o Escaped(arg).out \o Slashes(2 * Escaped(arg).slashes) \o <<Quote>> \in Seq(Letters)
  BY <1>3, <1>5, <1>6, Join
<1> QED
  BY <1>2, <1>7 DEF Quoted

LEMMA PieceType ==
  ASSUME NEW args \in Seq(Seq(Letters)), NEW tail, NEW k \in 1 .. Len(args)
  PROVE  Piece(args, tail, k) \in Seq(Letters) /\ args[k] \in Seq(Letters)
<1>1. args[k] \in Seq(Letters)
  BY PointsOf
<1>2. Quoted(args[k]) \in Seq(Letters)
  BY <1>1, QuotedType
<1>3. <<" ">> \in Seq(Letters)
  BY LettersAre, OneLetter
<1> QED
  BY <1>1, <1>2, <1>3, Join DEF Piece

\* The line, argument by argument.
LEMMA BuildIs ==
  ASSUME NEW args \in Seq(Seq(Letters)), NEW tail
  PROVE  \E f \in [0 .. Len(args) -> Seq(Letters)] :
           /\ f[0] = << >> /\ BuildCmdline(args, tail) = f[Len(args)]
           /\ \A n \in 1 .. Len(args) : f[n] = f[n - 1] \o Piece(args, tail, n)
<1> DEFINE N == Len(args)
           S == Seq(Letters)
           start == << >>
           step == [q \in (1 .. N) \X S |-> q[2] \o Piece(args, tail, q[1])]
           Eqn(f) == f = [n \in 0 .. N |-> IF n = 0 THEN start ELSE f[n - 1] \o Piece(args, tail, n)]
           after == CHOOSE f : Eqn(f)
<1>0. N \in Nat
  BY PointsOf
<1>1. start \in S
  BY EmptySeq
<1>2. \A n \in 1 .. N, v \in S : v \o Piece(args, tail, n) \in S
  BY PieceType, Join
<1> HIDE DEF S, start
<1>3. step \in [(1 .. N) \X S -> S]
  <2>1. \A q \in (1 .. N) \X S : q[2] \o Piece(args, tail, q[1]) \in S
    BY <1>2
  <2> QED
    BY <2>1
<1>4. PICK g : IteratesIn(g, N, S, start, step)
  <2> HIDE DEF step, N
  <2>1. \E f : IteratesIn(f, N, S, start, step)
    BY <1>0, <1>1, <1>3, IterationIn
  <2> QED
    BY <2>1
<1>5. \A n \in 1 .. N : g[n] = g[n - 1] \o Piece(args, tail, n)
  <2> TAKE n \in 1 .. N
  <2>1. n - 1 \in 0 .. N
    BY <1>0
  <2>2. <<n, g[n - 1]>> \in (1 .. N) \X S
    BY <1>4, <2>1 DEF IteratesIn
  <2> QED
    BY <1>4, <2>2 DEF IteratesIn
<1>6. Eqn(g)
  <2>1. \A n \in 0 .. N : n # 0 => n \in 1 .. N
    BY <1>0
  <2>2. \A n \in 0 .. N : g[n] = IF n = 0 THEN start ELSE g[n - 1] \o Piece(args, tail, n)
    <3> HIDE DEF N, step
    <3> QED
      BY <1>4, <1>5, <2>1, SMTT(60) DEF IteratesIn
  <2> QED
    BY <1>4, <2>2 DEF IteratesIn
<1>7. Eqn(after)
  <2> HIDE DEF Eqn
  <2> QED
    BY <1>6
<1>8. BuildCmdline(args, tail) = after[N]
  BY DEF BuildCmdline, start
<1>9. /\ after[0] = start
      /\ \A n \in 1 .. N : after[n] = after[n - 1] \o Piece(args, tail, n)
  <2>1. 0 \in 0 .. N /\ \A n \in 1 .. N : n \in 0 .. N /\ n # 0
    BY <1>0
  <2> HIDE DEF after, N
  <2> QED
    BY <1>7, <2>1
<1>10. \A n \in 0 .. N : after[n] \in S
  <2> DEFINE X == [n \in 0 .. N |-> S]
  <2>1. /\ 0 \in 0 .. N /\ \A n \in 1 .. N : n \in 0 .. N /\ n - 1 \in 0 .. N
    <3> HIDE DEF N, S, start, step, after
    <3> QED
      BY <1>0, PassesOf, ZenonT(60)
  <2>2. after[0] \in X[0]
    <3> HIDE DEF N, S, start, step, after
    <3> QED
      BY <1>1, <1>9, <2>1, SMTT(60)
  <2> HIDE DEF after
  <2>3. ASSUME NEW n \in 1 .. N, after[n - 1] \in X[n - 1] PROVE after[n] \in X[n]
    BY <1>2, <1>9, <2>1, <2>3
  <2>4. \A n \in 0 .. N : after[n] \in X[n]
    <3> HIDE DEF X, N
    <3> QED
      BY <1>0, <2>2, <2>3, Induct
  <2> QED
    BY <2>4
<1>11. after \in [0 .. N -> S]
  <2> HIDE DEF S, N
  <2>1. after = [n \in 0 .. N |-> after[n]]
    <3> HIDE DEF after
    <3> QED
      BY <1>7
  <2> HIDE DEF after
  <2> QED
    BY <1>10, <2>1
<1> HIDE DEF after
<1> QED
  BY <1>8, <1>9, <1>11 DEF S, start

PlainPiece(args, tail, k) == IF k < tail THEN << >> ELSE <<" ">> \o args[k]

\* What is not quoted.
LEMMA PlainlyIs ==
  ASSUME NEW args \in Seq(Seq(Letters)), NEW tail
  PROVE  \E f \in [0 .. Len(args) -> Seq(Letters)] :
           /\ f[0] = << >> /\ Plainly(args, tail) = f[Len(args)]
           /\ \A n \in 1 .. Len(args) : f[n] = f[n - 1] \o PlainPiece(args, tail, n)
<1> DEFINE N == Len(args)
           S == Seq(Letters)
           start == << >>
           step == [q \in (1 .. N) \X S |-> q[2] \o PlainPiece(args, tail, q[1])]
           Eqn(f) == f = [n \in 0 .. N |-> IF n = 0 THEN start ELSE f[n - 1] \o PlainPiece(args, tail, n)]
           after == CHOOSE f : Eqn(f)
<1>0. N \in Nat
  BY PointsOf
<1>1. start \in S
  BY EmptySeq
<1>2. \A n \in 1 .. N, v \in S : v \o PlainPiece(args, tail, n) \in S
  <2> TAKE n \in 1 .. N, v \in S
  <2>1. args[n] \in Seq(Letters)
    BY PieceType
  <2>2. <<" ">> \in Seq(Letters)
    BY LettersAre, OneLetter
  <2>3. PlainPiece(args, tail, n) \in Seq(Letters)
    BY <2>1, <2>2, EmptySeq, Join DEF PlainPiece
  <2> QED
    BY <2>3, Join
<1> HIDE DEF S, start
<1>3. step \in [(1 .. N) \X S -> S]
  <2>1. \A q \in (1 .. N) \X S : q[2] \o PlainPiece(args, tail, q[1]) \in S
    BY <1>2
  <2> QED
    BY <2>1
<1>4. PICK g : IteratesIn(g, N, S, start, step)
  <2> HIDE DEF step, N
  <2>1. \E f : IteratesIn(f, N, S, start, step)
    BY <1>0, <1>1, <1>3, IterationIn
  <2> QED
    BY <2>1
<1>5. \A n \in 1 .. N : g[n] = g[n - 1] \o PlainPiece(args, tail, n)
  <2> TAKE n \in 1 .. N
  <2>1. n - 1 \in 0 .. N
    BY <1>0
  <2>2. <<n, g[n - 1]>> \in (1 .. N) \X S
    BY <1>4, <2>1 DEF IteratesIn
  <2> QED
    BY <1>4, <2>2 DEF IteratesIn
<1>6. Eqn(g)
  <2>1. \A n \in 0 .. N : n # 0 => n \in 1 .. N
    BY <1>0
  <2>2. \A n \in 0 .. N : g[n] = IF n = 0 THEN start ELSE g[n - 1] \o PlainPiece(args, tail, n)
    <3> HIDE DEF N, step
    <3> QED
      BY <1>4, <1>5, <2>1 DEF IteratesIn
  <2> QED
    BY <1>4, <2>2 DEF IteratesIn
<1>7. Eqn(after)
  <2> HIDE DEF Eqn
  <2> QED
    BY <1>6
<1>8. Plainly(args, tail) = after[N]
  BY DEF Plainly, PlainPiece, start
<1>9. /\ after[0] = start
      /\ \A n \in 1 .. N : after[n] = after[n - 1] \o PlainPiece(args, tail, n)
  <2>1. 0 \in 0 .. N /\ \A n \in 1 .. N : n \in 0 .. N /\ n # 0
    BY <1>0
  <2> HIDE DEF after, N
  <2> QED
    BY <1>7, <2>1
<1>10. \A n \in 0 .. N : after[n] \in S
  <2> DEFINE X == [n \in 0 .. N |-> S]
  <2>1. /\ 0 \in 0 .. N /\ \A n \in 1 .. N : n \in 0 .. N /\ n - 1 \in 0 .. N
    <3> HIDE DEF N, S, start, step, after
    <3> QED
      BY <1>0, PassesOf, ZenonT(60)
  <2>2. after[0] \in X[0]
    <3> HIDE DEF N, S, start, step, after
    <3> QED
      BY <1>1, <1>9, <2>1, SMTT(60)
  <2> HIDE DEF after
  <2>3. ASSUME NEW n \in 1 .. N, after[n - 1] \in X[n - 1] PROVE after[n] \in X[n]
    BY <1>2, <1>9, <2>1, <2>3
  <2>4. \A n \in 0 .. N : after[n] \in X[n]
    <3> HIDE DEF X, N
    <3> QED
      BY <1>0, <2>2, <2>3, Induct
  <2> QED
    BY <2>4
<1>11. after \in [0 .. N -> S]
  <2> HIDE DEF S, N
  <2>1. after = [n \in 0 .. N |-> after[n]]
    <3> HIDE DEF after
    <3> QED
      BY <1>7
  <2> HIDE DEF after
  <2> QED
    BY <1>10, <2>1
<1> HIDE DEF after
<1> QED
  BY <1>8, <1>9, <1>11 DEF S, start

LEMMA EndedType ==
  ASSUME NEW c \in Scans
  PROVE  Ended(c) \in Scans
<1>1. c.args \in Seq(Seq(Letters)) /\ c.arg \in Seq(Letters) /\ c.slashes \in Nat
  BY DEF Scans
<1>2. c.arg \o Slashes(c.slashes) \in Seq(Letters)
  BY <1>1, SlashesIs, Join
<1> DEFINE args == IF c.begun THEN Append(c.args, c.arg \o Slashes(c.slashes)) ELSE c.args
<1>3. args \in Seq(Seq(Letters))
  BY <1>1, <1>2, AppendPoints
<1>4. Ended(c) = [args |-> args, arg |-> << >>, begun |-> FALSE, quoted |-> FALSE, slashes |-> 0]
  BY DEF Ended, Unread
<1>5. << >> \in Seq(Letters)
  BY EmptySeq
<1> HIDE DEF args
<1> QED
  BY <1>3, <1>4, <1>5 DEF Scans

\* The state inside an argument.
Inside(args, arg, quoted, slashes) ==
  [args |-> args, arg |-> arg, begun |-> TRUE, quoted |-> quoted, slashes |-> slashes]

LEMMA InsideType ==
  ASSUME NEW args \in Seq(Seq(Letters)), NEW arg \in Seq(Letters), NEW quoted \in BOOLEAN,
         NEW slashes \in Nat
  PROVE  Inside(args, arg, quoted, slashes) \in Scans
BY DEF Inside, Scans

\* What a program does with a backslash,
LEMMA ScanSlash ==
  ASSUME NEW c \in Scans
  PROVE  Scan(c, Slash) = Inside(c.args, c.arg, c.quoted, c.slashes + 1)
<1>1. Scan(c, Slash) = [c EXCEPT !.slashes = @ + 1, !.begun = TRUE]
  <2> DEFINE d == [c EXCEPT !.slashes = @ + 1, !.begun = TRUE]
  <2> HIDE DEF d
  <2> QED
    BY LettersAre DEF Scan, d
<1> QED
  BY <1>1 DEF Scans, Inside

\* with a quote, after backslashes that are even or odd in number,
LEMMA ScanQuote ==
  ASSUME NEW c \in Scans
  PROVE  Scan(c, Quote) =
           IF c.slashes % 2 = 1
           THEN Inside(c.args, Append(c.arg \o Slashes(c.slashes \div 2), Quote), c.quoted, 0)
           ELSE Inside(c.args, c.arg \o Slashes(c.slashes \div 2), ~c.quoted, 0)
<1> DEFINE literal == c.slashes % 2 = 1
           arg == c.arg \o Slashes(c.slashes \div 2)
<1>1. Scan(c, Quote) = [c EXCEPT !.arg = IF literal THEN Append(arg, Quote) ELSE arg,
                                 !.quoted = IF literal THEN @ ELSE ~@,
                                 !.begun = TRUE, !.slashes = 0]
  BY LettersAre DEF Scan
<1> HIDE DEF literal, arg
<1>2. CASE literal
  BY <1>1, <1>2 DEF Scans, Inside, literal, arg
<1>3. CASE ~literal
  BY <1>1, <1>3 DEF Scans, Inside, literal, arg
<1> QED
  BY <1>2, <1>3

\* with a blank that is not quoted,
LEMMA ScanBlank ==
  ASSUME NEW c \in Scans, ~c.quoted
  PROVE  Scan(c, " ") = Ended(c)
BY LettersAre DEF Scan

\* and with any other character.
LEMMA ScanOther ==
  ASSUME NEW c \in Scans, NEW ch \in Letters, ch \notin {Slash, Quote}, c.quoted \/ ch # " "
  PROVE  Scan(c, ch) = Inside(c.args, c.arg \o Slashes(c.slashes) \o <<ch>>, c.quoted, 0)
<1> DEFINE arg == c.arg \o Slashes(c.slashes) \o <<ch>>
<1>1. Scan(c, ch) = [c EXCEPT !.arg = arg, !.begun = TRUE, !.slashes = 0]
  BY DEF Scan
<1> HIDE DEF arg
<1> QED
  BY <1>1 DEF Scans, Inside, arg

LEMMA ScanType ==
  ASSUME NEW c \in Scans, NEW ch \in Letters
  PROVE  Scan(c, ch) \in Scans
<1>1. /\ c.args \in Seq(Seq(Letters)) /\ c.arg \in Seq(Letters) /\ c.slashes \in Nat
      /\ c.quoted \in BOOLEAN
  BY DEF Scans
<1>2. CASE ch = Slash
  <2>1. c.slashes + 1 \in Nat
    BY <1>1
  <2> QED
    BY <1>1, <1>2, <2>1, ScanSlash, InsideType
<1>3. CASE ch = Quote
  <2> DEFINE arg == c.arg \o Slashes(c.slashes \div 2)
  <2>1. c.slashes \div 2 \in Nat
    BY <1>1
  <2>2. arg \in Seq(Letters)
    BY <1>1, <2>1, SlashesIs, Join
  <2>3. Append(arg, Quote) \in Seq(Letters)
    BY <2>2, LettersAre, AppendPoints
  <2>4. (~c.quoted) \in BOOLEAN /\ 0 \in Nat
    BY <1>1
  <2>5. /\ Inside(c.args, Append(arg, Quote), c.quoted, 0) \in Scans
        /\ Inside(c.args, arg, ~c.quoted, 0) \in Scans
    <3> HIDE DEF arg
    <3> QED
      BY <1>1, <2>2, <2>3, <2>4, InsideType
  <2> QED
    BY <1>3, <2>5, ScanQuote
<1>4. CASE ch \notin {Slash, Quote} /\ ch = " " /\ ~c.quoted
  BY <1>4, ScanBlank, EndedType
<1>5. CASE ch \notin {Slash, Quote} /\ ~(ch = " " /\ ~c.quoted)
  <2> DEFINE arg == c.arg \o Slashes(c.slashes) \o <<ch>>
  <2>1. arg \in Seq(Letters)
    BY <1>1, SlashesIs, Join, OneLetter
  <2>2. Scan(c, ch) = Inside(c.args, arg, c.quoted, 0)
    BY <1>5, ScanOther
  <2>3. 0 \in Nat
    OBVIOUS
  <2> HIDE DEF arg
  <2> QED
    BY <1>1, <2>1, <2>2, <2>3, InsideType
<1> QED
  BY <1>2, <1>3, <1>4, <1>5

LEMMA UnreadType == Unread \in Scans
BY EmptySeq DEF Unread, Scans

\* What a program reads of a line, character by character.
LEMMA ScannedIs ==
  ASSUME NEW line \in Seq(Letters)
  PROVE  \E f \in [0 .. Len(line) -> Scans] :
           /\ f[0] = Unread /\ Scanned(line) = f[Len(line)]
           /\ \A n \in 1 .. Len(line) : f[n] = Scan(f[n - 1], line[n])
<1> DEFINE N == Len(line)
           S == Scans
           start == Unread
           step == [q \in (1 .. N) \X S |-> Scan(q[2], line[q[1]])]
           Eqn(f) == f = [n \in 0 .. N |-> IF n = 0 THEN start ELSE Scan(f[n - 1], line[n])]
           after == CHOOSE f : Eqn(f)
<1>0. N \in Nat
  BY PointsOf
<1>1. start \in S
  BY UnreadType
<1>2. \A n \in 1 .. N, v \in S : Scan(v, line[n]) \in S
  BY PointsOf, ScanType
<1> HIDE DEF S, start
<1>3. step \in [(1 .. N) \X S -> S]
  <2>1. \A q \in (1 .. N) \X S : Scan(q[2], line[q[1]]) \in S
    BY <1>2
  <2> QED
    BY <2>1
<1>4. PICK g : IteratesIn(g, N, S, start, step)
  <2> HIDE DEF step, N
  <2>1. \E f : IteratesIn(f, N, S, start, step)
    BY <1>0, <1>1, <1>3, IterationIn
  <2> QED
    BY <2>1
<1>5. \A n \in 1 .. N : g[n] = Scan(g[n - 1], line[n])
  <2> TAKE n \in 1 .. N
  <2>1. n - 1 \in 0 .. N
    BY <1>0
  <2>2. <<n, g[n - 1]>> \in (1 .. N) \X S
    BY <1>4, <2>1 DEF IteratesIn
  <2> QED
    BY <1>4, <2>2 DEF IteratesIn
<1>6. Eqn(g)
  <2>1. \A n \in 0 .. N : n # 0 => n \in 1 .. N
    BY <1>0
  <2>2. \A n \in 0 .. N : g[n] = IF n = 0 THEN start ELSE Scan(g[n - 1], line[n])
    <3> HIDE DEF N, step
    <3> QED
      BY <1>4, <1>5, <2>1 DEF IteratesIn
  <2> QED
    BY <1>4, <2>2 DEF IteratesIn
<1>7. Eqn(after)
  <2> HIDE DEF Eqn
  <2> QED
    BY <1>6
<1>8. Scanned(line) = after[N]
  BY DEF Scanned, start
<1>9. /\ after[0] = start
      /\ \A n \in 1 .. N : after[n] = Scan(after[n - 1], line[n])
  <2>1. 0 \in 0 .. N /\ \A n \in 1 .. N : n \in 0 .. N /\ n # 0
    BY <1>0
  <2> HIDE DEF after, N
  <2> QED
    BY <1>7, <2>1
<1>10. \A n \in 0 .. N : after[n] \in S
  <2> DEFINE X == [n \in 0 .. N |-> S]
  <2>1. /\ 0 \in 0 .. N /\ \A n \in 1 .. N : n \in 0 .. N /\ n - 1 \in 0 .. N
    <3> HIDE DEF N, S, start, step, after
    <3> QED
      BY <1>0, PassesOf, ZenonT(60)
  <2>2. after[0] \in X[0]
    <3> HIDE DEF N, S, start, step, after
    <3> QED
      BY <1>1, <1>9, <2>1, SMTT(60)
  <2> HIDE DEF after
  <2>3. ASSUME NEW n \in 1 .. N, after[n - 1] \in X[n - 1] PROVE after[n] \in X[n]
    BY <1>2, <1>9, <2>1, <2>3
  <2>4. \A n \in 0 .. N : after[n] \in X[n]
    <3> HIDE DEF X, N
    <3> QED
      BY <1>0, <2>2, <2>3, Induct
  <2> QED
    BY <2>4
<1>11. after \in [0 .. N -> S]
  <2> HIDE DEF S, N
  <2>1. after = [n \in 0 .. N |-> after[n]]
    <3> HIDE DEF after
    <3> QED
      BY <1>7
  <2> HIDE DEF after
  <2> QED
    BY <1>10, <2>1
<1> HIDE DEF after
<1> QED
  BY <1>8, <1>9, <1>11 DEF S, start

LEMMA ScannedNone == Scanned(<< >>) = Unread
<1>1. << >> \in Seq(Letters) /\ Len(<< >>) = 0
  BY EmptySeq
<1>2. PICK f \in [0 .. Len(<< >>) -> Scans] : f[0] = Unread /\ Scanned(<< >>) = f[Len(<< >>)]
  BY <1>1, ScannedIs
<1> QED
  BY <1>1, <1>2

LEMMA ScannedType ==
  ASSUME NEW line \in Seq(Letters)
  PROVE  Scanned(line) \in Scans
<1>1. PICK f \in [0 .. Len(line) -> Scans] : Scanned(line) = f[Len(line)]
  BY ScannedIs
<1>2. Len(line) \in 0 .. Len(line)
  BY PointsOf
<1> QED
  BY <1>1, <1>2

\* One more character is one more pass.
LEMMA ScannedMore ==
  ASSUME NEW line \in Seq(Letters), NEW ch \in Letters
  PROVE  Scanned(Append(line, ch)) = Scan(Scanned(line), ch)
<1> DEFINE N == Len(line)
           more == Append(line, ch)
<1>1. /\ N \in Nat /\ more \in Seq(Letters) /\ Len(more) = N + 1 /\ more[N + 1] = ch
      /\ \A i \in 1 .. N : more[i] = line[i]
  BY PointsOf, AppendPoints
<1>2. PICK f \in [0 .. N -> Scans] : /\ f[0] = Unread /\ Scanned(line) = f[N]
                                    /\ \A n \in 1 .. N : f[n] = Scan(f[n - 1], line[n])
  BY ScannedIs
<1> HIDE DEF more
<1>3. PICK g \in [0 .. Len(more) -> Scans] :
        /\ g[0] = Unread /\ Scanned(more) = g[Len(more)]
        /\ \A n \in 1 .. Len(more) : g[n] = Scan(g[n - 1], more[n])
  BY <1>1, ScannedIs
<1>4. \A n \in 0 .. N : g[n] = f[n]
  <2> DEFINE X == [n \in 0 .. N |-> {f[n]}]
  <2>1. 0 \in 0 .. N /\ \A n \in 1 .. N : n \in 0 .. N /\ n - 1 \in 0 .. N /\ n \in 1 .. N + 1
    BY <1>1
  <2>2. g[0] \in X[0]
    BY <1>2, <1>3, <2>1
  <2>3. ASSUME NEW n \in 1 .. N, g[n - 1] \in X[n - 1] PROVE g[n] \in X[n]
    BY <1>1, <1>2, <1>3, <2>1, <2>3
  <2>4. \A n \in 0 .. N : g[n] \in X[n]
    <3> HIDE DEF X, N
    <3> QED
      BY <1>1, <2>2, <2>3, Induct
  <2> QED
    BY <2>4
<1>5. N + 1 \in 1 .. Len(more) /\ (N + 1) - 1 = N /\ N \in 0 .. N
  BY <1>1
<1>6. g[N + 1] = Scan(g[(N + 1) - 1], more[N + 1])
  BY <1>3, <1>5
<1> QED
  BY <1>1, <1>2, <1>3, <1>4, <1>5, <1>6 DEF more

LEMMA InsideIs ==
  ASSUME NEW c \in Scans, c.begun
  PROVE  c = Inside(c.args, c.arg, c.quoted, c.slashes)
BY DEF Scans, Inside

\* The line ends in the quotes of an argument, with m backslashes.
Within(line, args, arg, m) ==
  line \in Seq(Letters) /\ Scanned(line) = Inside(args, arg, TRUE, m)

\* Backslashes, one after the other.
LEMMA SlashesRead ==
  ASSUME NEW line, NEW args, NEW arg, NEW m \in Nat, Within(line, args, arg, 0)
  PROVE  Within(line \o Slashes(m), args, arg, m)
<1> SUFFICES ASSUME line \in Seq(Letters), Scanned(line) = Inside(args, arg, TRUE, 0)
             PROVE  Scanned(line \o Slashes(m)) = Inside(args, arg, TRUE, m)
  BY SlashesIs, Join DEF Within
<1> DEFINE f == [n \in 0 .. m |-> Scanned(line \o Slashes(n))]
           X == [n \in 0 .. m |-> {Inside(args, arg, TRUE, n)}]
<1>1. /\ 0 \in 0 .. m /\ m \in 0 .. m
      /\ \A n \in 1 .. m : n \in 0 .. m /\ n - 1 \in 0 .. m /\ n - 1 \in Nat /\ (n - 1) + 1 = n
  OBVIOUS
<1>2. f[0] \in X[0]
  <2>1. line \o Slashes(0) = line
    BY SlashesNone, ConcatEmptySeq
  <2> QED
    BY <1>1, <2>1
<1>3. ASSUME NEW n \in 1 .. m, f[n - 1] \in X[n - 1] PROVE f[n] \in X[n]
  <2> DEFINE k == n - 1
             before == line \o Slashes(k)
  <2>1. k \in Nat /\ k + 1 = n /\ k \in 0 .. m /\ n \in 0 .. m
    BY <1>1
  <2> HIDE DEF k
  <2>2. Slashes(k) \in Seq(Letters) /\ before \in Seq(Letters)
    BY <2>1, SlashesIs, Join
  <2>3. line \o Slashes(n) = Append(before, Slash)
    <3>1. Slashes(n) = Append(Slashes(k), Slash)
      BY <2>1, SlashesMore
    <3>2. Slash \in Letters
      BY LettersAre
    <3> QED
      BY <2>2, <3>1, <3>2, PrependAppend
  <2>4. Scanned(before) = Inside(args, arg, TRUE, k)
    BY <1>3, <2>1 DEF k
  <2> HIDE DEF before
  <2>5. Scanned(line \o Slashes(n)) = Scan(Scanned(before), Slash)
    BY <2>2, <2>3, LettersAre, ScannedMore
  <2>6. Scanned(line \o Slashes(n)) = Inside(args, arg, TRUE, k + 1)
    <3>1. Scanned(before) \in Scans
      BY <2>2, ScannedType
    <3> DEFINE c == Scanned(before)
    <3>2. c.args = args /\ c.arg = arg /\ c.quoted = TRUE /\ c.slashes = k
      BY <2>4 DEF Inside
    <3> HIDE DEF c
    <3>3. Scan(c, Slash) = Inside(c.args, c.arg, c.quoted, c.slashes + 1)
      BY <3>1, ScanSlash DEF c
    <3> QED
      BY <2>5, <3>2, <3>3 DEF c
  <2> QED
    BY <2>1, <2>6
<1>4. \A n \in 0 .. m : f[n] \in X[n]
  <2> HIDE DEF f, X
  <2> QED
    BY <1>2, <1>3, Induct
<1> QED
  BY <1>1, <1>4

Parts(start, said, mid, ch) ==
  start \in Seq(Letters) /\ said \in Seq(Letters) /\ mid \in Seq(Letters) /\ ch \in Letters
Regrouping(start, said, mid, ch) ==
  /\ start \o (said \o mid \o <<ch>>) = Append((start \o said) \o mid, ch)
  /\ (start \o said) \o mid \in Seq(Letters)
LEMMA Regroup ==
  ASSUME NEW start, NEW said, NEW mid, NEW ch, Parts(start, said, mid, ch)
  PROVE  Regrouping(start, said, mid, ch)
<1> SUFFICES ASSUME start \in Seq(Letters), said \in Seq(Letters), mid \in Seq(Letters), ch \in Letters
             PROVE  /\ start \o (said \o mid \o <<ch>>) = Append((start \o said) \o mid, ch)
                    /\ (start \o said) \o mid \in Seq(Letters)
  BY DEF Parts, Regrouping
<1>1. /\ said \o mid \in Seq(Letters) /\ start \o said \in Seq(Letters)
      /\ (start \o said) \o mid \in Seq(Letters)
  BY Join
<1>2. (said \o mid) \o <<ch>> = Append(said \o mid, ch)
  BY <1>1, OneLetter
<1>3. start \o Append(said \o mid, ch) = Append(start \o (said \o mid), ch)
  BY <1>1, PrependAppend, SMTT(60)
<1>4. (start \o said) \o mid = start \o (said \o mid)
  BY ConcatAssociative, SMTT(60)
<1> QED
  BY <1>1, <1>2, <1>3, <1>4

\* Backslashes that are held back.
LEMMA SlashesKept ==
  ASSUME NEW x \in Seq(Letters), NEW n \in Nat
  PROVE  /\ x \o Slashes(n) \in Seq(Letters)
         /\ x \o Slashes(0) = x
         /\ x \o Slashes(n + 1) = Append(x \o Slashes(n), Slash)
<1>1. Slashes(n) \in Seq(Letters) /\ Slash \in Letters
  BY SlashesIs, LettersAre
<1>2. x \o Slashes(0) = x
  BY SlashesNone, ConcatEmptySeq
<1>3. x \o Slashes(n + 1) = Append(x \o Slashes(n), Slash)
  <2>1. Slashes(n + 1) = Append(Slashes(n), Slash)
    BY SlashesMore
  <2>2. x \o Append(Slashes(n), Slash) = Append(x \o Slashes(n), Slash)
    BY <1>1, PrependAppend
  <2> QED
    BY <2>1, <2>2
<1> QED
  BY <1>1, <1>2, <1>3, Join

\* Doubled backslashes, and those before a quote.
LEMMA Halved ==
  ASSUME NEW n \in Nat
  PROVE  /\ 2 * n \in Nat /\ (2 * n) % 2 = 0 /\ (2 * n) \div 2 = n
         /\ 2 * n + 1 \in Nat /\ (2 * n + 1) % 2 = 1 /\ (2 * n + 1) \div 2 = n
OBVIOUS

\* The program has read all but the backslashes that are held back.
Quoting(start, args, e, x) ==
  /\ start \in Seq(Letters) /\ args \in Seq(Seq(Letters)) /\ e \in Escapes /\ x \in Seq(Letters)
  /\ Scanned(start \o e.out) = Inside(args, x, TRUE, 0)

Advances(start, args, e, x, ch) ==
  \E y \in Seq(Letters) :
    /\ y \o Slashes(Escape(e, ch).slashes) = Append(x \o Slashes(e.slashes), ch)
    /\ Scanned(start \o Escape(e, ch).out) = Inside(args, y, TRUE, 0)

\* A pass of the loop that quotes, and what the program has read after it.
LEMMA EscapeRead ==
  ASSUME NEW start, NEW args, NEW e, NEW x, NEW ch \in Letters, Quoting(start, args, e, x)
  PROVE  Advances(start, args, e, x, ch)
<1> SUFFICES ASSUME start \in Seq(Letters), args \in Seq(Seq(Letters)), e \in Escapes,
                    x \in Seq(Letters), Scanned(start \o e.out) = Inside(args, x, TRUE, 0)
             PROVE  \E y \in Seq(Letters) :
                      /\ y \o Slashes(Escape(e, ch).slashes) = Append(x \o Slashes(e.slashes), ch)
                      /\ Scanned(start \o Escape(e, ch).out) = Inside(args, y, TRUE, 0)
  BY DEF Quoting, Advances
<1> DEFINE s == e.slashes
           held == x \o Slashes(s)
<1>1. s \in Nat /\ e.out \in Seq(Letters)
  BY DEF Escapes
<1>2. held \in Seq(Letters)
  BY <1>1, SlashesKept
<1>3. CASE ch = Slash
  <2>1. Escape(e, ch).out = e.out /\ Escape(e, ch).slashes = s + 1
    BY <1>3 DEF Escape, Escapes
  <2>2. x \o Slashes(s + 1) = Append(held, ch)
    BY <1>1, <1>3, SlashesKept
  <2> QED
    BY <2>1, <2>2
<1>4. ASSUME NEW m \in Nat, NEW y \in Seq(Letters),
             Escape(e, ch) = [out |-> e.out \o Slashes(m) \o <<ch>>, slashes |-> 0],
             \A c \in Scans : c = Inside(args, x, TRUE, m) => Scan(c, ch) = Inside(args, y, TRUE, 0)
      PROVE  Scanned(start \o Escape(e, ch).out) = Inside(args, y, TRUE, 0)
  <2> DEFINE line == (start \o e.out) \o Slashes(m)
  <2>1. Slashes(m) \in Seq(Letters)
    BY SlashesIs
  <2>2. line \in Seq(Letters) /\ start \o Escape(e, ch).out = Append(line, ch)
    <3>1. Escape(e, ch).out = e.out \o Slashes(m) \o <<ch>>
      BY <1>4, SMTT(60)
    <3> DEFINE mid == Slashes(m)
               said == e.out
    <3>2. mid \in Seq(Letters) /\ said \in Seq(Letters)
      BY <1>1, <2>1
    <3> HIDE DEF mid, said
    <3>4. Parts(start, said, mid, ch)
      BY <3>2 DEF Parts
    <3>5. Regrouping(start, said, mid, ch)
      BY <3>4, Regroup
    <3>3. /\ start \o (said \o mid \o <<ch>>) = Append((start \o said) \o mid, ch)
          /\ (start \o said) \o mid \in Seq(Letters)
      BY <3>5 DEF Regrouping
    <3> QED
      BY <3>1, <3>3 DEF mid, said
  <2>3. Scanned(line) = Inside(args, x, TRUE, m)
    <3> DEFINE base == start \o e.out
    <3>1. base \in Seq(Letters)
      BY <1>1, Join
    <3>2. Scanned(base) = Inside(args, x, TRUE, 0)
      OBVIOUS
    <3> HIDE DEF base
    <3>3. Within(base, args, x, 0)
      BY <3>1, <3>2 DEF Within
    <3>4. Within(base \o Slashes(m), args, x, m)
      BY <3>3, SlashesRead
    <3> QED
      BY <3>4 DEF Within, base
  <2> HIDE DEF line
  <2>4. Scanned(line) \in Scans /\ Scanned(Append(line, ch)) = Scan(Scanned(line), ch)
    BY <2>2, ScannedType, ScannedMore
  <2> QED
    BY <1>4, <2>2, <2>3, <2>4
<1>5. CASE ch = Quote
  <2> DEFINE m == 2 * s + 1
             y == Append(held, ch)
  <2>1. m \in Nat /\ m % 2 = 1 /\ m \div 2 = s
    BY <1>1, Halved
  <2>2. Escape(e, ch) = [out |-> e.out \o Slashes(m) \o <<ch>>, slashes |-> 0]
    BY <1>5, LettersAre DEF Escape
  <2>3. y \in Seq(Letters) /\ y \o Slashes(0) = y
    <3>1. y \in Seq(Letters)
      BY <1>2, AppendPoints
    <3> HIDE DEF y
    <3> QED
      BY <3>1, SlashesKept
  <2> HIDE DEF m
  <2>4. ASSUME NEW c \in Scans, c = Inside(args, x, TRUE, m)
        PROVE  Scan(c, ch) = Inside(args, y, TRUE, 0)
    <3>1. c.args = args /\ c.arg = x /\ c.quoted = TRUE /\ c.slashes = m
      BY <2>4 DEF Inside
    <3>2. Scan(c, Quote) = Inside(c.args, Append(c.arg \o Slashes(c.slashes \div 2), Quote), c.quoted, 0)
      BY <2>1, <3>1, ScanQuote
    <3> QED
      BY <1>5, <2>1, <3>1, <3>2
  <2> HIDE DEF y, held
  <2>5. Scanned(start \o Escape(e, ch).out) = Inside(args, y, TRUE, 0)
    BY <1>4, <2>1, <2>2, <2>3, <2>4
  <2>6. Escape(e, ch).slashes = 0
    BY <2>2
  <2>7. y \o Slashes(Escape(e, ch).slashes) = Append(x \o Slashes(e.slashes), ch)
    BY <2>3, <2>6 DEF y, held
  <2> QED
    BY <2>3, <2>5, <2>7
<1>6. CASE ch \notin {Slash, Quote}
  <2> DEFINE y == held \o <<ch>>
  <2>2. Escape(e, ch) = [out |-> e.out \o Slashes(s) \o <<ch>>, slashes |-> 0]
    BY <1>6 DEF Escape
  <2>3. y \in Seq(Letters) /\ y \o Slashes(0) = y /\ y = Append(held, ch)
    <3>1. y \in Seq(Letters) /\ y = Append(held, ch)
      BY <1>2, OneLetter, Join
    <3> HIDE DEF y
    <3> QED
      BY <3>1, SlashesKept
  <2>4. ASSUME NEW c \in Scans, c = Inside(args, x, TRUE, s)
        PROVE  Scan(c, ch) = Inside(args, y, TRUE, 0)
    <3>1. c.args = args /\ c.arg = x /\ c.quoted = TRUE /\ c.slashes = s
      BY <2>4 DEF Inside
    <3>2. Scan(c, ch) = Inside(c.args, c.arg \o Slashes(c.slashes) \o <<ch>>, c.quoted, 0)
      BY <1>6, <3>1, ScanOther
    <3> QED
      BY <3>1, <3>2
  <2> HIDE DEF y, held, s
  <2>5. Scanned(start \o Escape(e, ch).out) = Inside(args, y, TRUE, 0)
    BY <1>1, <1>4, <2>2, <2>3, <2>4
  <2>6. Escape(e, ch).slashes = 0
    BY <2>2
  <2>7. y \o Slashes(Escape(e, ch).slashes) = Append(x \o Slashes(e.slashes), ch)
    BY <2>3, <2>6 DEF held, s
  <2> QED
    BY <2>3, <2>5, <2>7
<1> QED
  BY <1>3, <1>5, <1>6

-----------------------------------------------------------------------------
(* Command lines: what a program reads of an argument, and of a line.      *)

\* Between two arguments, and in one that may end here.
Rest(args) == [args |-> args, arg |-> << >>, begun |-> FALSE, quoted |-> FALSE, slashes |-> 0]
Told(c, args, arg) == /\ c.args = args /\ ~c.quoted /\ c.begun
                      /\ c.arg \o Slashes(c.slashes) = arg

LEMMA UnreadWith ==
  ASSUME NEW args \in Seq(Seq(Letters))
  PROVE  [Unread EXCEPT !.args = args] = Rest(args)
<1> DEFINE u == Unread
<1>1. u \in Scans /\ u.arg = << >> /\ u.begun = FALSE /\ u.quoted = FALSE /\ u.slashes = 0
  BY UnreadType DEF Unread
<1> HIDE DEF u
<1>2. [u EXCEPT !.args = args] = [args |-> args, arg |-> u.arg, begun |-> u.begun,
                                  quoted |-> u.quoted, slashes |-> u.slashes]
  BY <1>1, SMTT(40) DEF Scans
<1> QED
  BY <1>1, <1>2 DEF Rest, u

LEMMA RestIs ==
  ASSUME NEW args \in Seq(Seq(Letters))
  PROVE  /\ Rest(args) \in Scans /\ Rest(args).args = args /\ Rest(args).arg = << >>
         /\ ~Rest(args).quoted /\ ~Rest(args).begun /\ Rest(args).slashes = 0
         /\ Ended(Rest(args)) = Rest(args)
<1>1. Rest(args) = [args |-> args, arg |-> << >>, begun |-> FALSE, quoted |-> FALSE, slashes |-> 0]
  BY DEF Rest
<1>2. << >> \in Seq(Letters)
  BY EmptySeq
<1>3. Ended(Rest(args)) = Rest(args)
  <2>1. Ended(Rest(args)) = [Unread EXCEPT !.args = Rest(args).args]
    BY <1>1 DEF Ended
  <2> QED
    BY <1>1, <2>1, UnreadWith
<1> QED
  BY <1>1, <1>2, <1>3 DEF Scans

\* A blank, or the end, ends the argument.
LEMMA ToldEnded ==
  ASSUME NEW c \in Scans, NEW args \in Seq(Seq(Letters)), NEW arg \in Seq(Letters), Told(c, args, arg)
  PROVE  Ended(c) = Rest(Append(args, arg)) /\ Scan(c, " ") = Ended(c)
<1>1. Ended(c) = [Unread EXCEPT !.args = Append(c.args, c.arg \o Slashes(c.slashes))]
  BY DEF Ended, Told
<1>2. Scan(c, " ") = Ended(c)
  BY ScanBlank DEF Told
<1>3. c.args = args /\ c.arg \o Slashes(c.slashes) = arg
  BY DEF Told
<1>4. Append(args, arg) \in Seq(Seq(Letters))
  BY AppendPoints
<1>5. Ended(c) = [Unread EXCEPT !.args = Append(args, arg)]
  BY <1>1, <1>3
<1>6. Ended(c) = Rest(Append(args, arg))
  BY <1>4, <1>5, UnreadWith
<1> QED
  BY <1>2, <1>6

\* An argument that is quoted.
LEMMA QuotedRead ==
  ASSUME NEW line \in Seq(Letters), NEW args \in Seq(Seq(Letters)), NEW arg \in Seq(Letters),
         NeedsQuotes(arg), Scanned(line) = Rest(args)
  PROVE  Told(Scanned(line \o Quoted(arg)), args, arg)
<1> DEFINE start == line \o <<Quote>>
           N == Len(arg)
           end == Escaped(arg)
<1>1. start \in Seq(Letters) /\ start = Append(line, Quote) /\ N \in Nat
  BY LettersAre, OneLetter, Join, PointsOf
<1>2. Scanned(start) = Inside(args, << >>, TRUE, 0)
  <2> DEFINE c == Rest(args)
  <2>1. Scanned(start) = Scan(c, Quote)
    BY <1>1, LettersAre, ScannedMore
  <2>2. c \in Scans /\ c.args = args /\ c.arg = << >> /\ ~c.quoted /\ c.slashes = 0
    BY RestIs
  <2> HIDE DEF c
  <2>3. c.slashes % 2 # 1 /\ c.slashes \div 2 = 0
    BY <2>2
  <2>4. Scan(c, Quote) = Inside(c.args, c.arg \o Slashes(c.slashes \div 2), ~c.quoted, 0)
    BY <2>2, <2>3, ScanQuote
  <2>5. c.arg \o Slashes(c.slashes \div 2) = << >>
    <3>1. << >> \in Seq(Letters)
      BY EmptySeq
    <3>2. << >> \o Slashes(0) = << >>
      BY <3>1, SlashesNone, ConcatEmptySeq
    <3> QED
      BY <2>2, <2>3, <3>2
  <2>6. (~c.quoted) = TRUE
    BY <2>2
  <2> QED
    BY <2>1, <2>2, <2>4, <2>5, <2>6
<1> HIDE DEF start
<1>3. PICK f \in [0 .. N -> Escapes] :
        /\ f[0] = [out |-> << >>, slashes |-> 0] /\ end = f[N]
        /\ \A n \in 1 .. N : f[n] = Escape(f[n - 1], arg[n])
  BY EscapedIs
<1> DEFINE Seen(n, e) == \E x \in Seq(Letters) :
                           /\ x \o Slashes(e.slashes) = SubSeq(arg, 1, n)
                           /\ Scanned(start \o e.out) = Inside(args, x, TRUE, 0)
<1>4. Seen(0, f[0])
  <2>1. << >> \in Seq(Letters) /\ SubSeq(arg, 1, 0) = << >>
    BY EmptySeq, SubSeqEmpty
  <2>2. f[0].out = << >> /\ f[0].slashes = 0
    BY <1>3
  <2>3. start \o << >> = start /\ << >> \o Slashes(0) = << >>
    BY <1>1, <2>1, SlashesNone, ConcatEmptySeq
  <2> QED
    BY <1>2, <2>1, <2>2, <2>3
<1>5. ASSUME NEW n \in 1 .. N, Seen(n - 1, f[n - 1]) PROVE Seen(n, f[n])
  <2> DEFINE e == f[n - 1]
             ch == arg[n]
  <2>1. n - 1 \in 0 .. N /\ n \in 0 .. N
    BY <1>1
  <2>2. e \in Escapes /\ ch \in Letters /\ f[n] = Escape(e, ch)
    BY <1>3, <2>1, PointsOf
  <2>3. PICK x \in Seq(Letters) : /\ x \o Slashes(e.slashes) = SubSeq(arg, 1, n - 1)
                                  /\ Scanned(start \o e.out) = Inside(args, x, TRUE, 0)
    BY <1>5
  <2>4. SubSeq(arg, 1, n) = Append(SubSeq(arg, 1, n - 1), ch)
    <3>1. SubSeq(arg, 1, n) = SubSeq(arg, 1, n - 1) \o <<ch>>
      <4>1. 1 \in 1 .. Len(arg) /\ n \in 1 .. Len(arg)
        BY <1>1
      <4> QED
        BY <4>1, SubSeqRecursiveSecond
    <3>2. SubSeq(arg, 1, n - 1) \in Seq(Letters)
      <4>1. 1 \in Int /\ n - 1 \in Int /\ \A i \in 1 .. n - 1 : arg[i] \in Letters
        BY <1>1, PointsOf
      <4> QED
        BY <4>1, SubSeqProperties
    <3> QED
      BY <2>2, <3>1, <3>2, OneLetter
  <2> HIDE DEF e, ch
  <2>5. \E y \in Seq(Letters) :
          /\ y \o Slashes(Escape(e, ch).slashes) = Append(x \o Slashes(e.slashes), ch)
          /\ Scanned(start \o Escape(e, ch).out) = Inside(args, y, TRUE, 0)
    <3>1. Quoting(start, args, e, x) /\ ch \in Letters
      BY <1>1, <2>2, <2>3 DEF Quoting
    <3>2. Advances(start, args, e, x, ch)
      BY <3>1, EscapeRead
    <3> QED
      BY <3>2, Zenon DEF Advances
  <2> QED
    BY <2>2, <2>3, <2>4, <2>5
<1>6. Seen(N, end)
  <2> DEFINE X == [n \in 0 .. N |-> {e \in Escapes : Seen(n, e)}]
  <2>1. 0 \in 0 .. N /\ N \in 0 .. N /\ \A n \in 1 .. N : n \in 0 .. N /\ n - 1 \in 0 .. N
    BY <1>1
  <2> HIDE DEF Seen, N
  <2>2. f[0] \in X[0]
    BY <1>3, <1>4, <2>1
  <2>3. ASSUME NEW n \in 1 .. N, f[n - 1] \in X[n - 1] PROVE f[n] \in X[n]
    BY <1>3, <1>5, <2>1, <2>3
  <2>4. \A n \in 0 .. N : f[n] \in X[n]
    <3> HIDE DEF X
    <3> QED
      BY <1>1, <2>2, <2>3, Induct, ZenonT(60)
  <2> QED
    BY <1>3, <2>1, <2>4
<1>7. PICK x \in Seq(Letters) : /\ x \o Slashes(end.slashes) = arg
                                /\ Scanned(start \o end.out) = Inside(args, x, TRUE, 0)
  <2>1. SubSeq(arg, 1, N) = arg
    BY SubSeqFull
  <2> QED
    BY <1>6, <2>1, ZenonT(60)
<1>8. end.out \in Seq(Letters) /\ end.slashes \in Nat
  <2>1. end \in Escapes
    BY QuotedType
  <2> HIDE DEF end
  <2> QED
    BY <2>1 DEF Escapes
<1> DEFINE s == end.slashes
           said == end.out
           mid == Slashes(2 * s)
           base == start \o said
<1>9. Quoted(arg) = <<Quote>> \o said \o mid \o <<Quote>>
  BY DEF Quoted
<1> HIDE DEF end
<1>10. /\ 2 * s \in Nat /\ (2 * s) % 2 = 0 /\ (2 * s) \div 2 = s
       /\ mid \in Seq(Letters) /\ base \in Seq(Letters)
  <2>1. 2 * s \in Nat /\ (2 * s) % 2 = 0 /\ (2 * s) \div 2 = s
    BY <1>8, Halved
  <2> QED
    BY <1>1, <1>8, <2>1, SlashesIs, Join
<1>11. line \o Quoted(arg) = Append(base \o mid, Quote) /\ base \o mid \in Seq(Letters)
  <2> HIDE DEF said, mid, base
  <2>1. <<Quote>> \in Seq(Letters) /\ said \in Seq(Letters) /\ Quote \in Letters
    BY <1>8, LettersAre, OneLetter DEF said
  <2>2. <<Quote>> \o said \in Seq(Letters)
    BY <2>1, Join
  <2>3. /\ line \o ((<<Quote>> \o said) \o mid \o <<Quote>>) = Append((line \o (<<Quote>> \o said)) \o mid, Quote)
    <3> DEFINE o2 == <<Quote>> \o said
    <3>1. Parts(line, o2, mid, Quote)
      BY <1>10, <2>1, <2>2 DEF Parts
    <3> HIDE DEF o2
    <3>2. Regrouping(line, o2, mid, Quote)
      BY <3>1, Regroup
    <3> QED
      BY <3>2 DEF Regrouping, o2
  <2>4. line \o (<<Quote>> \o said) = base
    BY <2>1, ConcatAssociative, SMTT(90) DEF base, start
  <2> QED
    BY <1>9, <1>10, <2>3, <2>4, Join
<1>12. Scanned(base \o mid) = Inside(args, x, TRUE, 2 * s)
  <2>1. Scanned(base) = Inside(args, x, TRUE, 0)
    BY <1>7
  <2> DEFINE m == 2 * s
  <2>2. m \in Nat /\ base \in Seq(Letters)
    BY <1>10
  <2> HIDE DEF base, m
  <2>3. Within(base, args, x, 0)
    BY <2>1, <2>2 DEF Within
  <2>4. Within(base \o Slashes(m), args, x, m)
    BY <2>2, <2>3, SlashesRead
  <2> QED
    BY <2>4 DEF Within, m
<1>13. Scanned(line \o Quoted(arg)) = Inside(args, x \o Slashes(s), FALSE, 0)
  <2> DEFINE c == Scanned(base \o mid)
  <2>1. c \in Scans /\ Scanned(line \o Quoted(arg)) = Scan(c, Quote)
    BY <1>11, LettersAre, ScannedType, ScannedMore
  <2>2. c.args = args /\ c.arg = x /\ c.quoted = TRUE /\ c.slashes = 2 * s
    BY <1>12 DEF Inside
  <2> HIDE DEF c, s
  <2>3. c.slashes % 2 # 1 /\ c.slashes \div 2 = s
    BY <1>10, <2>2
  <2>4. Scan(c, Quote) = Inside(c.args, c.arg \o Slashes(c.slashes \div 2), ~c.quoted, 0)
    BY <2>1, <2>3, ScanQuote
  <2>5. (~c.quoted) = FALSE
    BY <2>2
  <2> QED
    BY <2>1, <2>2, <2>3, <2>4, <2>5
<1>14. arg \o Slashes(0) = arg
  BY SlashesNone, ConcatEmptySeq
<1> QED
  BY <1>7, <1>13, <1>14 DEF Told, Inside

\* One that is not.
LEMMA BareRead ==
  ASSUME NEW line \in Seq(Letters), NEW args \in Seq(Seq(Letters)), NEW arg \in Seq(Letters),
         ~NeedsQuotes(arg), Scanned(line) = Rest(args)
  PROVE  Told(Scanned(line \o arg), args, arg)
<1> DEFINE N == Len(arg)
           upto(n) == SubSeq(arg, 1, n)
           Seen(c, n) == /\ c \in Scans /\ c.args = args /\ ~c.quoted /\ (n > 0 => c.begun)
                         /\ c.arg \o Slashes(c.slashes) = upto(n)
           f == [n \in 0 .. N |-> Scanned(line \o upto(n))]
           X == [n \in 0 .. N |-> {c \in Scans : Seen(c, n)}]
<1>0. N \in Nat /\ N > 0
  <2>1. arg # << >>
    BY DEF NeedsQuotes
  <2> QED
    BY <2>1, EmptySeq
<1>1. \A i \in 1 .. N : arg[i] \in Letters /\ arg[i] # " " /\ arg[i] # Quote
  BY PointsOf DEF NeedsQuotes
<1> HIDE DEF N
<1>2. /\ 0 \in 0 .. N /\ N \in 0 .. N /\ N > 0
      /\ \A n \in 1 .. N : n \in 0 .. N /\ n - 1 \in 0 .. N /\ n > 0
  BY <1>0
<1>3. f[0] \in X[0]
  <2>1. upto(0) = << >>
    BY SubSeqEmpty
  <2>2. line \o << >> = line /\ << >> \o Slashes(0) = << >>
    <3>1. << >> \in Seq(Letters)
      BY EmptySeq
    <3> QED
      BY <3>1, SlashesNone, ConcatEmptySeq
  <2>3. f[0] = Rest(args)
    BY <1>2, <2>1, <2>2
  <2>4. Seen(Rest(args), 0)
    <3> DEFINE c == Rest(args)
    <3>1. c \in Scans /\ c.args = args /\ c.arg = << >> /\ ~c.quoted /\ c.slashes = 0
      BY RestIs
    <3> HIDE DEF c
    <3> HIDE DEF upto
    <3>2. c.arg \o Slashes(c.slashes) = upto(0)
      BY <2>1, <2>2, <3>1
    <3>3. ~(0 > 0)
      OBVIOUS
    <3> QED
      BY <3>1, <3>2, <3>3 DEF c
  <2> HIDE DEF f, Seen
  <2> QED
    BY <1>2, <2>3, <2>4, RestIs
<1>4. ASSUME NEW n \in 1 .. N, f[n - 1] \in X[n - 1] PROVE f[n] \in X[n]
  <2> DEFINE c == f[n - 1]
             ch == arg[n]
             before == upto(n - 1)
  <2>1. ch \in Letters /\ ch # " " /\ ch # Quote
    BY <1>1
  <2>2. /\ c \in Scans /\ c.args = args /\ ~c.quoted /\ c.arg \o Slashes(c.slashes) = before
        /\ c = Scanned(line \o before)
    BY <1>2, <1>4
  <2>3. before \in Seq(Letters) /\ upto(n) = before \o <<ch>>
    <3>0. 1 \in Int /\ n - 1 \in Int /\ 1 \in 1 .. N /\ \A i \in 1 .. n - 1 : i \in 1 .. N
      BY <1>0
    <3>1. \A i \in 1 .. n - 1 : arg[i] \in Letters
      BY <1>1, <3>0
    <3>2. 1 \in 1 .. Len(arg) /\ n \in 1 .. Len(arg)
      BY <3>0 DEF N
    <3> QED
      BY <3>0, <3>1, <3>2, SubSeqProperties, SubSeqRecursiveSecond
  <2>4. f[n] = Scanned(line \o upto(n))
    BY <1>2
  <2> HIDE DEF c, before, f, ch
  <2>5. before \o <<ch>> = Append(before, ch)
    BY <2>1, <2>3, OneLetter
  <2>6. line \o Append(before, ch) = Append(line \o before, ch)
    <3>1. line \in Seq(Letters) /\ before \in Seq(Letters) /\ ch \in Letters
      BY <2>1, <2>3
    <3> QED
      BY <3>1, PrependAppend, SMTT(60)
  <2>7. f[n] = Scan(c, ch)
    <3>1. line \o before \in Seq(Letters)
      BY <2>3, Join
    <3> QED
      BY <2>1, <2>2, <2>3, <2>4, <2>5, <2>6, <3>1, ScannedMore, ZenonT(60)
  <2>8. c.arg \in Seq(Letters) /\ c.slashes \in Nat
    BY <2>2 DEF Scans
  <2>9. PICK y \in Seq(Letters), k \in Nat :
          /\ Scan(c, ch) = Inside(c.args, y, c.quoted, k) /\ y \o Slashes(k) = upto(n)
    <3>1. CASE ch = Slash
      <4>1. c.arg \o Slashes(c.slashes + 1) = Append(c.arg \o Slashes(c.slashes), Slash)
        BY <2>8, SlashesKept
      <4>2. c.slashes + 1 \in Nat
        BY <2>8
      <4>3. c.arg \o Slashes(c.slashes + 1) = upto(n)
        BY <2>2, <2>3, <2>5, <3>1, <4>1
      <4>4. Scan(c, ch) = Inside(c.args, c.arg, c.quoted, c.slashes + 1)
        BY <2>2, <3>1, ScanSlash
      <4> HIDE DEF upto
      <4> QED
        BY <2>8, <4>2, <4>3, <4>4
    <3>2. CASE ch # Slash
      <4> DEFINE y == c.arg \o Slashes(c.slashes) \o <<ch>>
      <4>1. Scan(c, ch) = Inside(c.args, y, c.quoted, 0)
        BY <2>1, <2>2, <3>2, ScanOther
      <4>2. y \in Seq(Letters) /\ y = upto(n)
        BY <2>1, <2>2, <2>3, OneLetter, Join
      <4> HIDE DEF y, upto
      <4>3. y \o Slashes(0) = y /\ 0 \in Nat
        BY <4>2, SlashesKept
      <4> QED
        BY <4>1, <4>2, <4>3
    <3> QED
      BY <3>1, <3>2
  <2>10. f[n] \in Scans
    BY <2>1, <2>2, <2>7, ScanType
  <2>11. Seen(f[n], n)
    BY <2>2, <2>7, <2>9, <2>10 DEF Inside
  <2> HIDE DEF Seen
  <2> QED
    BY <1>2, <2>10, <2>11
<1>5. f[N] \in X[N]
  <2>1. \A n \in 0 .. N : f[n] \in X[n]
    <3> HIDE DEF f, X, N
    <3> QED
      BY <1>0, <1>3, <1>4, Induct
  <2> QED
    BY <1>2, <2>1
<1>6. upto(N) = arg
  BY SubSeqFull DEF N
<1>7. f[N] = Scanned(line \o arg) /\ Seen(f[N], N)
  BY <1>2, <1>5, <1>6
<1> QED
  BY <1>2, <1>6, <1>7 DEF Told

\* An argument, quoted or not, is read as it was given.
LEMMA ArgRead ==
  ASSUME NEW line \in Seq(Letters), NEW args \in Seq(Seq(Letters)), NEW arg \in Seq(Letters),
         Scanned(line) = Rest(args)
  PROVE  Told(Scanned(line \o Quoted(arg)), args, arg)
<1>1. CASE NeedsQuotes(arg)
  BY <1>1, QuotedRead
<1>2. CASE ~NeedsQuotes(arg)
  BY <1>2, BareRead DEF Quoted
<1> QED
  BY <1>1, <1>2

\* A line whose last argument may end where it does.
Sound(line, args) == /\ Ended(Scanned(line)) = Rest(args)
                     /\ Scan(Scanned(line), " ") = Ended(Scanned(line))

LEMMA NothingSound == Sound(<< >>, << >>)
<1>1. << >> \in Seq(Seq(Letters))
  BY EmptySeq
<1>2. Rest(<< >>) = Unread
  BY DEF Rest, Unread
<1>3. Unread \in Scans /\ ~Unread.quoted /\ Ended(Unread) = Unread
  BY <1>1, <1>2, RestIs
<1> QED
  BY <1>2, <1>3, ScannedNone, ScanBlank DEF Sound

\* One more argument on a line.
LEMMA PieceSound ==
  ASSUME NEW line \in Seq(Letters), NEW args \in Seq(Seq(Letters)), NEW arg \in Seq(Letters),
         Sound(line, args)
  PROVE  Sound(line \o (<<" ">> \o Quoted(arg)), Append(args, arg))
<1> DEFINE open == Append(line, " ")
<1>1. " " \in Letters /\ <<" ">> \in Seq(Letters) /\ line \o <<" ">> = open /\ open \in Seq(Letters)
  BY LettersAre, OneLetter, AppendPoints
<1>2. Quoted(arg) \in Seq(Letters)
  BY QuotedType
<1>3. line \o (<<" ">> \o Quoted(arg)) = open \o Quoted(arg)
  <2> DEFINE blank == <<" ">>
  <2>1. blank \in Seq(Letters)
    BY <1>1
  <2> HIDE DEF blank
  <2>2. (line \o blank) \o Quoted(arg) = line \o (blank \o Quoted(arg))
    BY <1>2, <2>1, ConcatAssociative, SMTT(90)
  <2> QED
    BY <1>1, <2>2 DEF blank
<1>4. Scanned(open) = Rest(args)
  BY <1>1, ScannedMore DEF Sound
<1> HIDE DEF open
<1>5. Told(Scanned(open \o Quoted(arg)), args, arg)
  BY <1>1, <1>4, ArgRead
<1>6. Scanned(open \o Quoted(arg)) \in Scans
  BY <1>1, <1>2, Join, ScannedType
<1> QED
  BY <1>3, <1>5, <1>6, ToldEnded DEF Sound

Texts3(s, t, u) == s \in Seq(Letters) /\ t \in Seq(Letters) /\ u \in Seq(Letters)
Regroups(s, t, u) == (s \o t) \o u = s \o (t \o u)
LEMMA Regrouped ==
  ASSUME NEW s, NEW t, NEW u, Texts3(s, t, u)
  PROVE  Regroups(s, t, u)
BY ConcatAssociative, SMTT(60) DEF Texts3, Regroups

\* A line is what a program reads as the arguments before the tail, and the tail
\* as it is.
LEMMA LineRead ==
  ASSUME NEW args \in Seq(Seq(Letters)), NEW tail \in 1 .. Len(args) + 1
  PROVE  \E head \in Seq(Letters) :
           /\ Plainly(args, tail) \in Seq(Letters)
           /\ BuildCmdline(args, tail) = head \o Plainly(args, tail)
           /\ tail = Len(args) + 1 => Plainly(args, tail) = << >>
           /\ Sound(head, SubSeq(args, 1, tail - 1))
<1> DEFINE N == Len(args)
<1>1. N \in Nat /\ tail \in Nat /\ tail - 1 \in 0 .. N /\ 0 \in 0 .. N /\ N \in 0 .. N
  BY PointsOf
<1>2. PICK f \in [0 .. N -> Seq(Letters)] :
        /\ f[0] = << >> /\ BuildCmdline(args, tail) = f[N]
        /\ \A n \in 1 .. N : f[n] = f[n - 1] \o Piece(args, tail, n)
  BY BuildIs
<1>3. PICK r \in [0 .. N -> Seq(Letters)] :
        /\ r[0] = << >> /\ Plainly(args, tail) = r[N]
        /\ \A n \in 1 .. N : r[n] = r[n - 1] \o PlainPiece(args, tail, n)
  BY PlainlyIs
<1> DEFINE head == f[tail - 1]
           Good(k) == /\ k < tail => r[k] = << >> /\ Sound(f[k], SubSeq(args, 1, k))
                      /\ k >= tail - 1 => f[k] = head \o r[k]
<1>4. head \in Seq(Letters) /\ head \o << >> = head
  <2>1. head \in Seq(Letters)
    BY <1>1, <1>2
  <2> QED
    BY <2>1, ConcatEmptySeq
<1>5. ASSUME NEW k \in 0 .. N, k < tail, r[k] = << >>, Sound(f[k], SubSeq(args, 1, k))
      PROVE  Good(k)
  <2>1. k >= tail - 1 => k = tail - 1
    BY <1>1, <1>5
  <2> QED
    BY <1>4, <1>5, <2>1
<1>6. Good(0)
  <2>1. SubSeq(args, 1, 0) = << >> /\ 0 < tail
    BY <1>1, SubSeqEmpty
  <2> HIDE DEF Good
  <2> QED
    BY <1>1, <1>2, <1>3, <1>5, <2>1, NothingSound
<1>7. ASSUME NEW k \in 1 .. N, Good(k - 1) PROVE Good(k)
  <2> DEFINE j == k - 1
  <2>1. j \in 0 .. N /\ k \in 0 .. N /\ j \in Int /\ k \in Int /\ k = j + 1
    BY <1>1
  <2>2. /\ f[j] \in Seq(Letters) /\ r[j] \in Seq(Letters)
        /\ f[k] = f[j] \o Piece(args, tail, k) /\ r[k] = r[j] \o PlainPiece(args, tail, k)
        /\ args[k] \in Seq(Letters)
    BY <1>2, <1>3, <2>1, PieceType
  <2>3. Good(j)
    BY <1>7
  <2> HIDE DEF j
  <2>4. CASE k < tail
    <3>1. j < tail
      BY <1>1, <2>1, <2>4
    <3>2. r[j] = << >> /\ Sound(f[j], SubSeq(args, 1, j))
      BY <2>3, <3>1
    <3>3. r[k] = << >>
      <4>1. PlainPiece(args, tail, k) = << >>
        BY <2>4 DEF PlainPiece
      <4> QED
        BY <2>2, <3>2, <4>1, ConcatEmptySeq
    <3>4. f[k] = f[j] \o (<<" ">> \o Quoted(args[k]))
      <4>1. ~(k >= tail)
        BY <1>1, <2>1, <2>4
      <4> QED
        BY <2>2, <4>1 DEF Piece
    <3>5. SubSeq(args, 1, k) = Append(SubSeq(args, 1, j), args[k]) /\ SubSeq(args, 1, j) \in Seq(Seq(Letters))
      <4>1. 1 \in 1 .. Len(args) /\ k \in 1 .. Len(args)
        BY <1>1
      <4>2. SubSeq(args, 1, k) = SubSeq(args, 1, j) \o <<args[k]>>
        BY <4>1, SubSeqRecursiveSecond DEF j
      <4>3. SubSeq(args, 1, j) \in Seq(Seq(Letters))
        <5>1. 1 \in Int /\ j \in Int /\ \A i \in 1 .. j : i \in 1 .. Len(args)
          BY <1>1, <2>1
        <5>2. \A i \in 1 .. j : args[i] \in Seq(Letters)
          BY <5>1, PointsOf
        <5> QED
          BY <5>1, <5>2, SubSeqProperties
      <4> QED
        BY <2>2, <4>2, <4>3, AppendIsConcat, ZenonT(60)
    <3>6. Sound(f[k], SubSeq(args, 1, k))
      BY <2>2, <3>2, <3>4, <3>5, PieceSound
    <3> QED
      BY <1>5, <2>1, <2>4, <3>3, <3>6
  <2>5. CASE k >= tail
    <3>1. j >= tail - 1
      BY <1>1, <2>1, <2>5
    <3>2. f[j] = head \o r[j]
      BY <2>3, <3>1
    <3> DEFINE piece == <<" ">> \o args[k]
    <3>3. piece \in Seq(Letters)
      BY <2>2, LettersAre, OneLetter, Join
    <3>4. Piece(args, tail, k) = piece /\ PlainPiece(args, tail, k) = piece
      <4>1. ~(k < tail)
        BY <1>1, <2>1, <2>5
      <4> QED
        BY <2>5, <4>1 DEF Piece, PlainPiece
    <3> HIDE DEF piece, head
    <3>5. (head \o r[j]) \o piece = head \o (r[j] \o piece)
      <4> DEFINE rest == r[j]
      <4>1. Texts3(head, rest, piece)
        BY <1>4, <2>2, <3>3 DEF Texts3
      <4> HIDE DEF rest
      <4>2. Regroups(head, rest, piece)
        BY <4>1, Regrouped
      <4> QED
        BY <4>2 DEF Regroups, rest
    <3>6. f[k] = head \o r[k]
      BY <2>2, <3>2, <3>4, <3>5
    <3>7. ~(k < tail)
      BY <1>1, <2>1, <2>5
    <3> QED
      BY <3>6, <3>7
  <2> QED
    BY <1>1, <2>1, <2>4, <2>5, SMTT(60)
<1>8. \A k \in 0 .. N : Good(k)
  <2> DEFINE F == [k \in 0 .. N |-> k]
             X == [k \in 0 .. N |-> {n \in 0 .. N : n = k /\ Good(k)}]
  <2>1. \A k \in 1 .. N : k \in 0 .. N /\ k - 1 \in 0 .. N
    BY <1>1
  <2> HIDE DEF Good, N
  <2>2. F[0] \in X[0]
    BY <1>1, <1>6
  <2>3. ASSUME NEW k \in 1 .. N, F[k - 1] \in X[k - 1] PROVE F[k] \in X[k]
    BY <1>7, <2>1, <2>3
  <2>4. \A k \in 0 .. N : F[k] \in X[k]
    <3> HIDE DEF F, X
    <3> QED
      BY <1>1, <2>2, <2>3, Induct
  <2> QED
    BY <2>4
<1>9. Good(N) /\ Good(tail - 1) /\ N >= tail - 1 /\ tail - 1 < tail
  <2>1. N \in 0 .. N /\ tail - 1 \in 0 .. N /\ N >= tail - 1 /\ tail - 1 < tail
    BY <1>1
  <2> HIDE DEF Good, N
  <2> QED
    BY <1>8, <2>1
<1>10. Sound(head, SubSeq(args, 1, tail - 1))
  BY <1>9
<1>11. f[N] = head \o r[N]
  BY <1>9
<1>12. tail = N + 1 => r[N] = << >>
  <2>1. tail = N + 1 => N < tail
    BY <1>1
  <2> QED
    BY <1>9, <2>1
<1>13. r[N] \in Seq(Letters)
  BY <1>1, <1>3
<1> HIDE DEF head
<1> QED
  BY <1>2, <1>3, <1>4, <1>10, <1>11, <1>12, <1>13

\* Where the shell's part begins.
LEMMA TailIs ==
  ASSUME NEW args \in Seq(Seq(Letters))
  PROVE  TailIndex(args) \in 1 .. Len(args) + 1
<1> DEFINE switches == {i \in DOMAIN args : args[i] = <<"/c">> /\ i < Len(args)}
<1>1. Len(args) \in Nat /\ DOMAIN args = 1 .. Len(args)
  BY PointsOf
<1>2. CASE switches = {}
  BY <1>1, <1>2 DEF TailIndex
<1>3. CASE switches # {}
  <2>1. switches \subseteq Nat /\ switches \subseteq 1 .. Len(args)
    BY <1>1
  <2>2. PICK m \in switches : \A n \in switches : m <= n
    <3> HIDE DEF switches
    <3> QED
      BY <1>3, <2>1, LeastNatural
  <2> DEFINE first == CHOOSE i \in switches : \A j \in switches : i <= j
  <2>3. first \in switches
    <3> HIDE DEF switches
    <3> QED
      BY <2>2
  <2>4. TailIndex(args) = 1 + first
    BY <1>3 DEF TailIndex
  <2>5. first \in 1 .. Len(args)
    <3> HIDE DEF switches, first
    <3> QED
      BY <2>1, <2>3
  <2> HIDE DEF first
  <2> QED
    BY <1>1, <2>4, <2>5
<1> QED
  BY <1>2, <1>3

Typed == Letters \cup {","}
Lists == {args \in Seq(Seq(Letters)) : args # << >>}

LEMMA SplitType ==
  ASSUME NEW args \in Lists, NEW ch \in Typed
  PROVE  Split(args, ch) \in Lists
<1>1. args \in Seq(Seq(Letters)) /\ Len(args) \in Nat \ {0}
  BY EmptySeq DEF Lists
<1>2. CASE ch = ","
  <2>1. << >> \in Seq(Letters)
    BY EmptySeq
  <2>2. Append(args, << >>) \in Seq(Seq(Letters)) /\ Len(Append(args, << >>)) = Len(args) + 1
    BY <1>1, <2>1, AppendPoints
  <2>3. Append(args, << >>) # << >>
    <3>1. Len(args) + 1 # 0
      BY <1>1
    <3>2. Len(<< >>) = 0
      BY EmptySeq
    <3> QED
      BY <2>2, <3>1, <3>2
  <2> QED
    BY <1>2, <2>2, <2>3 DEF Split, Lists
<1>3. CASE ch # ","
  <2>0. ch \in Letters
    BY <1>3 DEF Typed
  <2> DEFINE k == Len(args)
  <2>1. k \in 1 .. k
    BY <1>1
  <2>2. args[k] \in Seq(Letters)
    BY <1>1, <2>1, ElementOfSeq
  <2> DEFINE longer == Append(args[k], ch)
             next == [args EXCEPT ![k] = longer]
  <2>3. longer \in Seq(Letters)
    BY <2>0, <2>2, AppendPoints
  <2>4. next \in Seq(Seq(Letters)) /\ Len(next) = Len(args)
    <3>1. k \in 1 .. Len(args) /\ args \in Seq(Seq(Letters))
      BY <1>1, <2>1
    <3> HIDE DEF k, longer
    <3> QED
      BY <2>3, <3>1, ExceptSeq
  <2>5. Split(args, ch) = next
    BY <1>3 DEF Split
  <2> HIDE DEF next
  <2>6. next # << >>
    BY <1>1, <2>4, EmptySeq
  <2> QED
    BY <2>4, <2>5, <2>6 DEF Lists
<1> QED
  BY <1>2, <1>3

\* The arguments between commas.
LEMMA ArgumentsAre ==
  ASSUME NEW s \in Seq(Typed)
  PROVE  \E f \in [0 .. Len(s) -> Lists] :
           /\ f[0] = <<(<< >>)>> /\ Arguments(s) = f[Len(s)]
           /\ \A n \in 1 .. Len(s) : f[n] = Split(f[n - 1], s[n])
<1> DEFINE N == Len(s)
           S == Lists
           start == <<(<< >>)>>
           step == [q \in (1 .. N) \X S |-> Split(q[2], s[q[1]])]
           Eqn(f) == f = [n \in 0 .. N |-> IF n = 0 THEN start ELSE Split(f[n - 1], s[n])]
           after == CHOOSE f : Eqn(f)
<1>0. N \in Nat
  BY PointsOf
<1>1. start \in S
  <2>1. << >> \in Seq(Letters)
    BY EmptySeq
  <2>2. \A e \in Seq(Letters) : <<e>> \in Seq(Seq(Letters)) /\ Len(<<e>>) = 1
    OBVIOUS
  <2> QED
    BY <2>1, <2>2, EmptySeq DEF Lists
<1>2. \A n \in 1 .. N, v \in S : Split(v, s[n]) \in S
  BY PointsOf, SplitType
<1> HIDE DEF S, start
<1>3. step \in [(1 .. N) \X S -> S]
  <2>1. \A q \in (1 .. N) \X S : Split(q[2], s[q[1]]) \in S
    BY <1>2
  <2> QED
    BY <2>1
<1>4. PICK g : IteratesIn(g, N, S, start, step)
  <2> HIDE DEF step, N
  <2>1. \E f : IteratesIn(f, N, S, start, step)
    BY <1>0, <1>1, <1>3, IterationIn
  <2> QED
    BY <2>1
<1>5. \A n \in 1 .. N : g[n] = Split(g[n - 1], s[n])
  <2> TAKE n \in 1 .. N
  <2>1. n - 1 \in 0 .. N
    BY <1>0
  <2>2. <<n, g[n - 1]>> \in (1 .. N) \X S
    BY <1>4, <2>1 DEF IteratesIn
  <2> QED
    BY <1>4, <2>2 DEF IteratesIn
<1>6. Eqn(g)
  <2>1. \A n \in 0 .. N : n # 0 => n \in 1 .. N
    BY <1>0
  <2>2. \A n \in 0 .. N : g[n] = IF n = 0 THEN start ELSE Split(g[n - 1], s[n])
    <3> HIDE DEF N, step
    <3> QED
      BY <1>4, <1>5, <2>1 DEF IteratesIn
  <2> QED
    BY <1>4, <2>2 DEF IteratesIn
<1>7. Eqn(after)
  <2> HIDE DEF Eqn
  <2> QED
    BY <1>6
<1>8. Arguments(s) = after[N]
  BY DEF Arguments, start
<1>9. /\ after[0] = start
      /\ \A n \in 1 .. N : after[n] = Split(after[n - 1], s[n])
  <2>1. 0 \in 0 .. N /\ \A n \in 1 .. N : n \in 0 .. N /\ n # 0
    BY <1>0
  <2> HIDE DEF after, N
  <2> QED
    BY <1>7, <2>1
<1>10. \A n \in 0 .. N : after[n] \in S
  <2> DEFINE X == [n \in 0 .. N |-> S]
  <2>1. /\ 0 \in 0 .. N /\ \A n \in 1 .. N : n \in 0 .. N /\ n - 1 \in 0 .. N
    <3> HIDE DEF N, S, start, step, after
    <3> QED
      BY <1>0, PassesOf, ZenonT(60)
  <2>2. after[0] \in X[0]
    <3> HIDE DEF N, S, start, step, after
    <3> QED
      BY <1>1, <1>9, <2>1, SMTT(60)
  <2> HIDE DEF after
  <2>3. ASSUME NEW n \in 1 .. N, after[n - 1] \in X[n - 1] PROVE after[n] \in X[n]
    BY <1>2, <1>9, <2>1, <2>3
  <2>4. \A n \in 0 .. N : after[n] \in X[n]
    <3> HIDE DEF X, N
    <3> QED
      BY <1>0, <2>2, <2>3, Induct
  <2> QED
    BY <2>4
<1>11. after \in [0 .. N -> S]
  <2> HIDE DEF S, N
  <2>1. after = [n \in 0 .. N |-> after[n]]
    <3> HIDE DEF after
    <3> QED
      BY <1>7
  <2> HIDE DEF after
  <2> QED
    BY <1>10, <2>1
<1> HIDE DEF after
<1> QED
  BY <1>8, <1>9, <1>11 DEF S, start

\* Any arguments arrive.
LEMMA LineArrives ==
  ASSUME NEW args \in Seq(Seq(Letters)), NEW tail \in 1 .. Len(args) + 1
  PROVE  LET raw == Plainly(args, tail)
             line == BuildCmdline(args, tail)
             head == SubSeq(line, 1, Len(line) - Len(raw))
         IN  /\ Parsed(BuildCmdline(args, Len(args) + 1)) = args
             /\ line = head \o raw /\ Parsed(head) = SubSeq(args, 1, tail - 1)
<1>1. Len(args) \in Nat /\ Len(args) + 1 \in 1 .. Len(args) + 1 /\ (Len(args) + 1) - 1 = Len(args)
  BY PointsOf
<1>2. \A head, as : as \in Seq(Seq(Letters)) /\ Sound(head, as) => Parsed(head) = as
  <2> TAKE head, as
  <2> HAVE as \in Seq(Seq(Letters)) /\ Sound(head, as)
  <2>1. Parsed(head) = Rest(as).args
    BY DEF Sound, Parsed
  <2> QED
    BY <2>1, RestIs
<1>0. SubSeq(args, 1, tail - 1) \in Seq(Seq(Letters))
  <2>1. 1 \in Int /\ tail - 1 \in Int /\ \A i \in 1 .. tail - 1 : i \in 1 .. Len(args)
    BY <1>1
  <2>2. \A i \in 1 .. tail - 1 : args[i] \in Seq(Letters)
    BY <2>1, PointsOf
  <2> QED
    BY <2>1, <2>2, SubSeqProperties
<1>3. Parsed(BuildCmdline(args, Len(args) + 1)) = args
  <2> DEFINE end == Len(args) + 1
  <2>1. end \in 1 .. Len(args) + 1 /\ end = Len(args) + 1 /\ end - 1 = Len(args)
    BY <1>1
  <2> HIDE DEF end
  <2>2. PICK head \in Seq(Letters) :
          /\ BuildCmdline(args, end) = head \o Plainly(args, end)
          /\ end = Len(args) + 1 => Plainly(args, end) = << >>
          /\ Sound(head, SubSeq(args, 1, end - 1))
    BY <2>1, LineRead
  <2>3. BuildCmdline(args, end) = head
    BY <2>1, <2>2, ConcatEmptySeq
  <2>4. SubSeq(args, 1, end - 1) = args
    BY <2>1, SubSeqFull
  <2>5. Parsed(head) = args
    BY <1>2, <2>2, <2>4
  <2> QED
    BY <2>3, <2>5 DEF end
<1> DEFINE raw == Plainly(args, tail)
           line == BuildCmdline(args, tail)
<1>4. PICK head \in Seq(Letters) :
        raw \in Seq(Letters) /\ line = head \o raw /\ Sound(head, SubSeq(args, 1, tail - 1))
  BY LineRead
<1> HIDE DEF raw, line
<1>5. Len(line) = Len(head) + Len(raw) /\ Len(head) \in Nat /\ Len(raw) \in Nat
  BY <1>4, ConcatPoints, PointsOf
<1>6. Len(line) - Len(raw) = Len(head)
  BY <1>5
<1>7. SubSeq(line, 1, Len(head)) = head
  <2>1. CASE Len(head) = 0
    <3>1. head = << >>
      BY <2>1, EmptySeq
    <3>2. SubSeq(line, 1, Len(head)) = << >>
      BY <2>1, SubSeqEmpty
    <3> QED
      BY <3>1, <3>2
  <2>2. CASE Len(head) > 0
    <3>1. 1 \in 1 .. Len(head) /\ Len(head) \in 1 .. Len(head)
      BY <1>5, <2>2
    <3>2. SubSeq(head \o raw, 1, Len(head)) = SubSeq(head, 1, Len(head))
      BY <1>4, <3>1, SubSeqOfConcat1
    <3> QED
      BY <1>4, <3>2, SubSeqFull
  <2> QED
    BY <1>5, <2>1, <2>2
<1>8. Parsed(head) = SubSeq(args, 1, tail - 1)
  BY <1>0, <1>2, <1>4
<1> QED
  BY <1>3, <1>4, <1>6, <1>7, <1>8 DEF raw, line

LEMMA ToItself == \A n \in Nat : n \in 0 .. n
OBVIOUS

LEMMA SeqRetyped ==
  ASSUME NEW X, NEW s \in Seq(X), NEW Y, \A i \in 1 .. Len(s) : s[i] \in Y
  PROVE  s \in Seq(Y)
<1>1. Len(s) \in Nat /\ s \in [1 .. Len(s) -> X]
  BY LenProperties
<1>2. s \in [1 .. Len(s) -> Y]
  BY <1>1
<1> QED
  BY <1>1, <1>2, SeqDef

\* So do those of any text.
LEMMA TextArrives ==
  ASSUME NEW X, text \in Seq(X)
  PROVE  ArgumentsArrive
<1> SUFFICES ASSUME Over({"n", " ", ",", "/c", Slash, Quote}) PROVE ArgumentsArrive
  BY DEF ArgumentsArrive
<1> DEFINE args == Arguments(text)
           tail == TailIndex(args)
<1>1. text \in Seq(Typed)
  <2>1. Len(text) \in Nat /\ DOMAIN text = 1 .. Len(text)
    BY PointsOf
  <2>2. \A i \in 1 .. Len(text) : text[i] \in Typed
    BY <2>1 DEF Over, Letters, Typed
  <2> QED
    BY <2>1, <2>2, SeqRetyped
<1>2. args \in Lists
  <2>1. PICK f \in [0 .. Len(text) -> Lists] : Arguments(text) = f[Len(text)]
    BY <1>1, ArgumentsAre
  <2>2. Len(text) \in Nat
    BY PointsOf
  <2> QED
    BY <2>1, <2>2, ToItself
<1>3. args \in Seq(Seq(Letters))
  BY <1>2 DEF Lists
<1>4. tail \in 1 .. Len(args) + 1
  <2> HIDE DEF args
  <2> QED
    BY <1>3, TailIs
<1>5. LET raw == Plainly(args, tail)
          line == BuildCmdline(args, tail)
          head == SubSeq(line, 1, Len(line) - Len(raw))
      IN  /\ Parsed(BuildCmdline(args, Len(args) + 1)) = args
          /\ line = head \o raw /\ Parsed(head) = SubSeq(args, 1, tail - 1)
  <2> HIDE DEF args, tail
  <2> QED
    BY <1>3, <1>4, LineArrives
<1> QED
  BY <1>5 DEF ArgumentsArrive

-----------------------------------------------------------------------------
(* Command lines: sequences of bytes, and what the decoder makes of them.  *)

Byte == 0 .. 255
Scalar(cp) == cp \in Nat /\ cp <= 1114111 /\ ~Surrogate(cp)

\* Bytes and the code points they spell, for each length.
LEMMA OneByte ==
  ASSUME NEW c \in Byte, c < 128
  PROVE  Scalar(c) /\ Utf8(c) = <<c>>
BY SMTT(60) DEF Byte, Scalar, Surrogate, Utf8

LEMMA TwoBytes ==
  ASSUME NEW c \in Byte, NEW x \in Byte, c \div 32 = 6, x \div 64 = 2
  PROVE  LET cp == (c % 32) * 64 + (x % 64)
         IN  /\ cp \in Nat /\ cp < 2048 /\ c \in 192 .. 223 /\ x \in 128 .. 191
             /\ cp >= 128 <=> c \in 194 .. 223
             /\ cp >= 128 => Scalar(cp) /\ Utf8(cp) = <<c, x>>
<1> DEFINE cp == (c % 32) * 64 + (x % 64)
<1>1. c \in 192 .. 223 /\ x \in 128 .. 191 /\ c % 32 = c - 192 /\ x % 64 = x - 128
  BY SMT DEF Byte
<1>2. cp = (c - 192) * 64 + (x - 128) /\ cp \in Nat /\ cp < 2048 /\ (cp >= 128 <=> c \in 194 .. 223)
  BY <1>1, SMT
<1>3. cp \div 64 = c - 192 /\ cp % 64 = x - 128
  BY <1>1, <1>2, SMT
<1> HIDE DEF cp
<1>4. cp >= 128 => Scalar(cp)
  BY <1>2, SMT DEF Scalar, Surrogate
<1>5. cp >= 128 => Utf8(cp) = <<c, x>>
  <2>1. cp >= 128 => ~(cp < 128) /\ cp < 2048
    BY <1>2, SMT
  <2>2. cp >= 128 => Utf8(cp) = <<192 + cp \div 64, 128 + (cp % 64)>>
    BY <1>2, <2>1, SMT DEF Utf8
  <2>3. 192 + cp \div 64 = c /\ 128 + (cp % 64) = x
    BY <1>1, <1>3, SMT
  <2> QED
    BY <2>2, <2>3, SMT
<1> QED
  BY <1>1, <1>2, <1>4, <1>5, SMT DEF cp

LEMMA ThreeBytes ==
  ASSUME NEW c \in Byte, NEW x \in Byte, NEW y \in Byte, c \div 16 = 14, x \div 64 = 2, y \div 64 = 2
  PROVE  LET cp == (c % 16) * 4096 + (x % 64) * 64 + (y % 64)
             ok == cp >= 2048 /\ ~Surrogate(cp)
         IN  /\ cp \in Nat /\ cp < 65536 /\ c \in 224 .. 239 /\ x \in 128 .. 191 /\ y \in 128 .. 191
             /\ ok <=> \/ c = 224 /\ x \in 160 .. 191
                       \/ c \in (225 .. 239) \ {237}
                       \/ c = 237 /\ x \in 128 .. 159
             /\ ok => Scalar(cp) /\ Utf8(cp) = <<c, x, y>>
<1> DEFINE cp == (c % 16) * 4096 + (x % 64) * 64 + (y % 64)
           ok == cp >= 2048 /\ ~Surrogate(cp)
<1>1. /\ c \in 224 .. 239 /\ x \in 128 .. 191 /\ y \in 128 .. 191
      /\ c % 16 = c - 224 /\ x % 64 = x - 128 /\ y % 64 = y - 128
  BY SMT DEF Byte
<1>2. cp = (c - 224) * 4096 + (x - 128) * 64 + (y - 128) /\ cp \in Nat /\ cp < 65536
  BY <1>1, SMT
<1>3. cp \div 4096 = c - 224 /\ (cp \div 64) % 64 = x - 128 /\ cp % 64 = y - 128
  <2>1. cp \div 64 = (c - 224) * 64 + (x - 128)
    BY <1>1, <1>2, SMT
  <2> QED
    BY <1>1, <1>2, <2>1, SMT
<1> HIDE DEF cp
<1>4. ok <=> \/ c = 224 /\ x \in 160 .. 191
             \/ c \in (225 .. 239) \ {237}
             \/ c = 237 /\ x \in 128 .. 159
  BY <1>1, <1>2, SMT DEF Surrogate
<1>5. ok => Scalar(cp) /\ cp >= 2048 /\ cp < 65536
  BY <1>2, SMT DEF Scalar, Surrogate
<1>6. ok => Utf8(cp) = <<c, x, y>>
  <2>1. ok => ~(cp < 128) /\ ~(cp < 2048) /\ cp < 65536
    BY <1>2, <1>5, SMT
  <2>2. ok => Utf8(cp) = <<224 + cp \div 4096, 128 + ((cp \div 64) % 64), 128 + (cp % 64)>>
    BY <1>2, <2>1, SMT DEF Utf8
  <2>3. 224 + cp \div 4096 = c /\ 128 + ((cp \div 64) % 64) = x /\ 128 + (cp % 64) = y
    BY <1>1, <1>3, SMT
  <2> QED
    BY <2>2, <2>3, SMT
<1> QED
  BY <1>1, <1>2, <1>4, <1>5, <1>6, SMT DEF cp

LEMMA FourBytes ==
  ASSUME NEW c \in Byte, NEW x \in Byte, NEW y \in Byte, NEW z \in Byte,
         c \div 8 = 30, x \div 64 = 2, y \div 64 = 2, z \div 64 = 2
  PROVE  LET cp == (c % 8) * 262144 + (x % 64) * 4096 + (y % 64) * 64 + (z % 64)
             ok == cp >= 65536 /\ cp <= 1114111
         IN  /\ cp \in Nat /\ c \in 240 .. 247
             /\ x \in 128 .. 191 /\ y \in 128 .. 191 /\ z \in 128 .. 191
             /\ ok <=> \/ c = 240 /\ x \in 144 .. 191
                       \/ c \in 241 .. 243
                       \/ c = 244 /\ x \in 128 .. 143
             /\ ok => Scalar(cp) /\ Utf8(cp) = <<c, x, y, z>>
<1> DEFINE cp == (c % 8) * 262144 + (x % 64) * 4096 + (y % 64) * 64 + (z % 64)
           ok == cp >= 65536 /\ cp <= 1114111
<1>1. /\ c \in 240 .. 247 /\ x \in 128 .. 191 /\ y \in 128 .. 191 /\ z \in 128 .. 191
      /\ c % 8 = c - 240 /\ x % 64 = x - 128 /\ y % 64 = y - 128 /\ z % 64 = z - 128
  BY SMT DEF Byte
<1>2. /\ cp = (c - 240) * 262144 + (x - 128) * 4096 + (y - 128) * 64 + (z - 128)
      /\ cp \in Nat
  BY <1>1, SMT
<1>3. /\ cp \div 262144 = c - 240 /\ (cp \div 4096) % 64 = x - 128
      /\ (cp \div 64) % 64 = y - 128 /\ cp % 64 = z - 128
  <2>1. /\ cp \div 64 = (c - 240) * 4096 + (x - 128) * 64 + (y - 128)
        /\ cp \div 4096 = (c - 240) * 64 + (x - 128)
    BY <1>1, <1>2, SMT
  <2> QED
    BY <1>1, <1>2, <2>1, SMT
<1> HIDE DEF cp
<1>4. ok <=> \/ c = 240 /\ x \in 144 .. 191
             \/ c \in 241 .. 243
             \/ c = 244 /\ x \in 128 .. 143
  BY <1>1, <1>2, SMT
<1>5. ok => Scalar(cp) /\ cp > 65535
  BY <1>2, SMT DEF Scalar, Surrogate
<1>6. ok => Utf8(cp) = <<c, x, y, z>>
  <2>1. ok => ~(cp < 128) /\ ~(cp < 2048) /\ ~(cp < 65536)
    BY <1>2, <1>5, SMT
  <2>2. ok => Utf8(cp) = <<240 + cp \div 262144, 128 + ((cp \div 4096) % 64),
                           128 + ((cp \div 64) % 64), 128 + (cp % 64)>>
    BY <1>2, <2>1, SMT DEF Utf8
  <2>3. /\ 240 + cp \div 262144 = c /\ 128 + ((cp \div 4096) % 64) = x
        /\ 128 + ((cp \div 64) % 64) = y /\ 128 + (cp % 64) = z
    BY <1>1, <1>3, SMT
  <2> QED
    BY <2>2, <2>3, SMT
<1> QED
  BY <1>1, <1>2, <1>4, <1>5, <1>6, SMT DEF cp

\* A surrogate pair is a code point.
LEMMA PairIs ==
  ASSUME NEW cp \in Nat, Scalar(cp), cp >= 65536
  PROVE  LET high == 55296 + (cp - 65536) \div 1024
             low == 56320 + ((cp - 65536) % 1024)
         IN  /\ Units(cp) = <<high, low>>
             /\ high \in High /\ low \in Low
             /\ 65536 + (high - 55296) * 1024 + low - 56320 = cp
<1> DEFINE d == cp - 65536
           q == d \div 1024
           r == d % 1024
<1>1. d \in Nat /\ d < 1048576 /\ ~(cp < 65536) /\ cp \in Int /\ cp = 65536 + d
  BY SMT DEF Scalar
<1> HIDE DEF d
<1>2. q \in Nat /\ r \in 0 .. 1023 /\ d = 1024 * q + r
  BY <1>1, SMT
<1> HIDE DEF q, r
<1>3. q < 1024
  BY <1>1, <1>2, SMT
<1>4. Units(cp) = <<55296 + q, 56320 + r>>
  BY <1>1, SMT DEF Units, q, r, d
<1>5. 65536 + ((55296 + q) - 55296) * 1024 + (56320 + r) - 56320 = cp
  BY <1>1, <1>2, SMT
<1>6. 55296 + q \in High /\ 56320 + r \in Low
  BY <1>2, <1>3, SMT DEF High, Low
<1> QED
  BY <1>4, <1>5, <1>6, SMTT(60) DEF q, r, d

\* And any other is one unit, which is no half.
LEMMA SingleIs ==
  ASSUME NEW cp \in Nat, Scalar(cp), cp < 65536
  PROVE  Units(cp) = <<cp>> /\ cp \in Nat /\ cp < 65536 /\ cp \notin High /\ cp \notin Low
BY SMTT(90) DEF High, Low, Units, Scalar, Surrogate

\* What Unicode allows as a first byte, with the one after it, and as a later byte.
Later(x) == x \in 128 .. 191
Lead2(c) == c \in 194 .. 223
Lead3(c, x) ==
  \/ c = 224 /\ x \in 160 .. 191
  \/ c \in (225 .. 239) \ {237}
  \/ c = 237 /\ x \in 128 .. 159
Lead4(c, x) ==
  \/ c = 240 /\ x \in 144 .. 191
  \/ c \in 241 .. 243
  \/ c = 244 /\ x \in 128 .. 143

\* What a first byte says of how many follow.
Headed(c, n) ==
  \/ n = 0 /\ c < 128
  \/ n = 1 /\ c \div 32 = 6
  \/ n = 2 /\ c \div 16 = 14
  \/ n = 3 /\ c \div 8 = 30

\* What the masks of the code say of a byte.
LEMMA ByteLeads ==
  ASSUME NEW c \in Byte
  PROVE  /\ c < 128 <=> c \in 0 .. 127
         /\ c \div 32 = 6 <=> c \in 192 .. 223
         /\ c \div 16 = 14 <=> c \in 224 .. 239
         /\ c \div 8 = 30 <=> c \in 240 .. 247
         /\ c \div 64 = 2 <=> c \in 128 .. 191
BY SMTT(60) DEF Byte

LEMMA LeadsOf ==
  ASSUME NEW c \in Byte
  PROVE  /\ Headed(c, 0) <=> c < 128
         /\ Headed(c, 1) <=> c \div 32 = 6
         /\ Headed(c, 2) <=> c \div 16 = 14
         /\ Headed(c, 3) <=> c \div 8 = 30
<1>1. 0 # 1 /\ 0 # 2 /\ 0 # 3 /\ 1 # 2 /\ 1 # 3 /\ 2 # 3
  BY SMT
<1> QED
  BY <1>1, Zenon DEF Headed

\* A first byte tells how many follow.
LEMMA HeadedOnly ==
  ASSUME NEW c \in Byte, NEW m \in 0 .. 3, NEW n \in 0 .. 3, Headed(c, m), Headed(c, n)
  PROVE  m = n
<1>1. /\ c < 128 <=> c \in 0 .. 127
      /\ c \div 32 = 6 <=> c \in 192 .. 223
      /\ c \div 16 = 14 <=> c \in 224 .. 239
      /\ c \div 8 = 30 <=> c \in 240 .. 247
  BY ByteLeads, SMT
<1> QED
  BY <1>1, SMT DEF Headed

LEMMA HeadedLead2 == ASSUME NEW c \in Byte, Lead2(c) PROVE Headed(c, 1)
<1>1. c \div 32 = 6
  BY SMT DEF Lead2, Byte
<1> QED
  BY <1>1 DEF Headed
LEMMA HeadedLead3 == ASSUME NEW c \in Byte, NEW x, Lead3(c, x) PROVE Headed(c, 2)
<1>1. c \div 16 = 14
  BY SMT DEF Lead3, Byte
<1> QED
  BY <1>1 DEF Headed
LEMMA HeadedLead4 == ASSUME NEW c \in Byte, NEW x, Lead4(c, x) PROVE Headed(c, 3)
<1>1. c \div 8 = 30
  BY SMT DEF Lead4, Byte
<1> QED
  BY <1>1 DEF Headed

LEMMA ByteContinues ==
  ASSUME NEW c \in Byte
  PROVE  c \div 64 = 2 <=> Later(c)
BY SMTT(60) DEF Byte, Later

LEMMA Counted ==
  /\ \A k : k \in 1 .. 1 <=> k = 1
  /\ \A k : k \in 1 .. 2 <=> k = 1 \/ k = 2
  /\ \A k : k \in 1 .. 3 <=> k = 1 \/ k = 2 \/ k = 3
  /\ \A k : k \in 2 .. 1 <=> FALSE
  /\ \A k : k \in 2 .. 2 <=> k = 2
  /\ \A k : k \in 2 .. 3 <=> k = 2 \/ k = 3
  /\ \A k : k \in 2 .. 0 <=> FALSE
OBVIOUS

LEMMA Continuation1 ==
  ASSUME NEW b, NEW i
  PROVE  Continuation(b, i, 1) <=> i + 1 <= Len(b) /\ b[i + 1] \div 64 = 2
BY Counted, Zenon DEF Continuation

LEMMA Continuation2 ==
  ASSUME NEW b, NEW i
  PROVE  Continuation(b, i, 2) <=>
           i + 2 <= Len(b) /\ b[i + 1] \div 64 = 2 /\ b[i + 2] \div 64 = 2
BY Counted, Zenon DEF Continuation

LEMMA Continuation3 ==
  ASSUME NEW b, NEW i
  PROVE  Continuation(b, i, 3) <=> /\ i + 3 <= Len(b) /\ b[i + 1] \div 64 = 2
                                   /\ b[i + 2] \div 64 = 2 /\ b[i + 3] \div 64 = 2
BY Counted, Zenon DEF Continuation

LEMMA Sequence0 ==
  ASSUME NEW b, NEW i
  PROVE  Sequence(b, i, 0) <=> i + 0 <= Len(b) /\ b[i] \in 0 .. 127
BY SMTT(60) DEF Sequence

LEMMA Sequence1 ==
  ASSUME NEW b, NEW i
  PROVE  Sequence(b, i, 1) <=> i + 1 <= Len(b) /\ Lead2(b[i]) /\ Later(b[i + 1])
BY SMTT(60) DEF Sequence, Lead2, Later

LEMMA Sequence2 ==
  ASSUME NEW b, NEW i
  PROVE  Sequence(b, i, 2) <=>
           i + 2 <= Len(b) /\ Lead3(b[i], b[i + 1]) /\ Later(b[i + 1]) /\ Later(b[i + 2])
BY SMTT(60) DEF Sequence, Lead3, Later

LEMMA Sequence3 ==
  ASSUME NEW b, NEW i
  PROVE  Sequence(b, i, 3) <=> /\ i + 3 <= Len(b) /\ Lead4(b[i], b[i + 1])
                               /\ Later(b[i + 1]) /\ Later(b[i + 2]) /\ Later(b[i + 3])
BY SMTT(60) DEF Sequence, Lead4, Later

\* What is cut out of bytes, a few at a time.
LEMMA CutFew ==
  ASSUME NEW b \in Seq(Byte), NEW i \in 1 .. Len(b)
  PROVE  /\ SubSeq(b, i, i + 0) = <<b[i]>>
         /\ i + 1 <= Len(b) => SubSeq(b, i, i + 1) = <<b[i], b[i + 1]>>
         /\ i + 2 <= Len(b) => SubSeq(b, i, i + 2) = <<b[i], b[i + 1], b[i + 2]>>
         /\ i + 3 <= Len(b) => SubSeq(b, i, i + 3) = <<b[i], b[i + 1], b[i + 2], b[i + 3]>>
<1>1. Len(b) \in Nat /\ \A j \in 1 .. Len(b) : b[j] \in Byte
  BY PointsOf
<1> DEFINE cut(n) == SubSeq(b, i, i + n)
<1>2. ASSUME NEW n \in 0 .. 3, i + n <= Len(b)
      PROVE  cut(n) \in Seq(Byte) /\ Len(cut(n)) = n + 1 /\ \A j \in 1 .. n + 1 : cut(n)[j] = b[i + j - 1]
  <2>1. i \in Int /\ i + n \in Int /\ \A j \in i .. i + n : j \in 1 .. Len(b)
    BY <1>1, <1>2
  <2>2. \A j \in i .. i + n : b[j] \in Byte
    BY <1>1, <2>1
  <2>3. /\ cut(n) \in Seq(Byte)
        /\ Len(cut(n)) = IF i <= i + n THEN (i + n) - i + 1 ELSE 0
        /\ \A j \in 1 .. (i + n) - i + 1 : cut(n)[j] = b[i + j - 1]
    BY <2>1, <2>2, SubSeqProperties
  <2>4. (i + n) - i + 1 = n + 1 /\ i <= i + n
    BY <1>2, <2>1
  <2> QED
    BY <2>3, <2>4
<1>3. i + 0 <= Len(b) /\ i + 0 = i /\ i + 1 - 1 = i /\ i + 2 - 1 = i + 1 /\ i + 3 - 1 = i + 2 /\ i + 4 - 1 = i + 3
  BY <1>1
<1> HIDE DEF cut
<1>4. cut(0) = <<b[i]>>
  BY <1>2, <1>3
<1>5. i + 1 <= Len(b) => cut(1) = <<b[i], b[i + 1]>>
  <2> SUFFICES ASSUME i + 1 <= Len(b) PROVE cut(1) = <<b[i], b[i + 1]>>
    OBVIOUS
  <2> DEFINE c == cut(1)
  <2>1. c \in Seq(Byte) /\ Len(c) = 2 /\ \A j \in 1 .. 2 : c[j] = b[i + j - 1]
    BY <1>2
  <2> HIDE DEF c
  <2>2. c[1] = b[i] /\ c[2] = b[i + 1]
    BY <1>3, <2>1
  <2>3. c = <<b[i], b[i + 1]>>
    BY <2>1, <2>2
  <2> QED
    BY <2>3 DEF c
<1>6. i + 2 <= Len(b) => cut(2) = <<b[i], b[i + 1], b[i + 2]>>
  <2> SUFFICES ASSUME i + 2 <= Len(b) PROVE cut(2) = <<b[i], b[i + 1], b[i + 2]>>
    OBVIOUS
  <2> DEFINE c == cut(2)
  <2>1. c \in Seq(Byte) /\ Len(c) = 3 /\ \A j \in 1 .. 3 : c[j] = b[i + j - 1]
    BY <1>2
  <2> HIDE DEF c
  <2>2. c[1] = b[i] /\ c[2] = b[i + 1] /\ c[3] = b[i + 2]
    BY <1>3, <2>1
  <2>3. c = <<b[i], b[i + 1], b[i + 2]>>
    BY <2>1, <2>2
  <2> QED
    BY <2>3 DEF c
<1>7. i + 3 <= Len(b) => cut(3) = <<b[i], b[i + 1], b[i + 2], b[i + 3]>>
  <2> SUFFICES ASSUME i + 3 <= Len(b) PROVE cut(3) = <<b[i], b[i + 1], b[i + 2], b[i + 3]>>
    OBVIOUS
  <2> DEFINE c == cut(3)
  <2>1. c \in Seq(Byte) /\ Len(c) = 4 /\ \A j \in 1 .. 4 : c[j] = b[i + j - 1]
    BY <1>2
  <2> HIDE DEF c
  <2>2. c[1] = b[i] /\ c[2] = b[i + 1] /\ c[3] = b[i + 2] /\ c[4] = b[i + 3]
    BY <1>3, <2>1
  <2>3. c = <<b[i], b[i + 1], b[i + 2], b[i + 3]>>
    BY <2>1, <2>2
  <2> QED
    BY <2>3 DEF c
<1> QED
  BY <1>4, <1>5, <1>6, <1>7 DEF cut

\* A code point of the planes above the first, which takes two units.
Wide(cp) == cp >= 65536

\* What is spelled is allowed where Unicode allows the bytes, and spells them.
Spells(b, i, n, bytes) ==
  LET cp == Spelled(b, i, n)
  IN  Scalar(cp) /\ Utf8(cp) = bytes /\ (Wide(cp) => n = 3)

\* What one byte spells, and two, three and four.
LEMMA SpelledOne ==
  ASSUME NEW b, NEW i, b[i] \in Byte, b[i] < 128
  PROVE  Allowed(Spelled(b, i, 0), 0) /\ Spells(b, i, 0, <<b[i]>>)
<1>1. Spelled(b, i, 0) = b[i] /\ Allowed(Spelled(b, i, 0), 0)
  BY SMT DEF Spelled, Allowed
<1>2. ~Wide(b[i])
  BY SMT DEF Byte, Wide
<1> QED
  BY <1>1, <1>2, OneByte, SMT DEF Spells

LEMMA SpelledTwo ==
  ASSUME NEW b, NEW i, b[i] \in Byte, b[i + 1] \in Byte, Headed(b[i], 1), Later(b[i + 1])
  PROVE  /\ Allowed(Spelled(b, i, 1), 1) <=> Lead2(b[i])
         /\ Allowed(Spelled(b, i, 1), 1) => Spells(b, i, 1, <<b[i], b[i + 1]>>)
<1> DEFINE cp == (b[i] % 32) * 64 + (b[i + 1] % 64)
<1>0. b[i] \div 32 = 6 /\ b[i + 1] \div 64 = 2
  BY LeadsOf, ByteContinues
<1>1. Spelled(b, i, 1) = cp
  BY SMT DEF Spelled
<1>2. /\ cp \in Nat /\ cp < 2048 /\ (cp >= 128 <=> b[i] \in 194 .. 223)
      /\ cp >= 128 => Scalar(cp) /\ Utf8(cp) = <<b[i], b[i + 1]>>
  BY <1>0, TwoBytes, SMT
<1> HIDE DEF cp
<1>3. Allowed(cp, 1) <=> cp >= 128
  BY <1>2, SMT DEF Allowed
<1>4. ~Wide(cp)
  BY <1>2, SMT DEF Wide
<1> QED
  BY <1>1, <1>2, <1>3, <1>4, SMT DEF Spells, Lead2

LEMMA SpelledThree ==
  ASSUME NEW b, NEW i, b[i] \in Byte, b[i + 1] \in Byte, b[i + 2] \in Byte,
         Headed(b[i], 2), Later(b[i + 1]), Later(b[i + 2])
  PROVE  /\ Allowed(Spelled(b, i, 2), 2) <=> Lead3(b[i], b[i + 1])
         /\ Allowed(Spelled(b, i, 2), 2) => Spells(b, i, 2, <<b[i], b[i + 1], b[i + 2]>>)
<1> DEFINE cp == (b[i] % 16) * 4096 + (b[i + 1] % 64) * 64 + (b[i + 2] % 64)
           ok == cp >= 2048 /\ ~Surrogate(cp)
<1>0. b[i] \div 16 = 14 /\ b[i + 1] \div 64 = 2 /\ b[i + 2] \div 64 = 2
  BY LeadsOf, ByteContinues
<1>1. Spelled(b, i, 2) = cp
  BY SMT DEF Spelled
<1>2. /\ cp \in Nat /\ cp < 65536
      /\ ok <=> Lead3(b[i], b[i + 1])
      /\ ok => Scalar(cp) /\ Utf8(cp) = <<b[i], b[i + 1], b[i + 2]>>
  BY <1>0, ThreeBytes, SMT DEF Lead3
<1>3. Allowed(Spelled(b, i, 2), 2) <=> ok
  <2> HIDE DEF cp
  <2> QED
    BY <1>1, <1>2, SMT DEF Allowed
<1> HIDE DEF cp, ok
<1>4. ~Wide(cp)
  BY <1>2, SMT DEF Wide
<1> QED
  BY <1>1, <1>2, <1>3, <1>4, SMT DEF Spells

LEMMA SpelledFour ==
  ASSUME NEW b, NEW i, b[i] \in Byte, b[i + 1] \in Byte, b[i + 2] \in Byte, b[i + 3] \in Byte,
         Headed(b[i], 3), Later(b[i + 1]), Later(b[i + 2]), Later(b[i + 3])
  PROVE  /\ Allowed(Spelled(b, i, 3), 3) <=> Lead4(b[i], b[i + 1])
         /\ Allowed(Spelled(b, i, 3), 3) =>
              Spells(b, i, 3, <<b[i], b[i + 1], b[i + 2], b[i + 3]>>)
<1> DEFINE cp == (b[i] % 8) * 262144 + (b[i + 1] % 64) * 4096 + (b[i + 2] % 64) * 64 + (b[i + 3] % 64)
           ok == cp >= 65536 /\ cp <= 1114111
<1>0. b[i] \div 8 = 30 /\ b[i + 1] \div 64 = 2 /\ b[i + 2] \div 64 = 2 /\ b[i + 3] \div 64 = 2
  BY LeadsOf, ByteContinues
<1>1. Spelled(b, i, 3) = cp
  BY SMT DEF Spelled
<1>2. /\ cp \in Nat
      /\ ok <=> Lead4(b[i], b[i + 1])
      /\ ok => Scalar(cp) /\ Utf8(cp) = <<b[i], b[i + 1], b[i + 2], b[i + 3]>>
  BY <1>0, FourBytes, SMT DEF Lead4
<1>3. Allowed(Spelled(b, i, 3), 3) <=> ok
  <2> HIDE DEF cp
  <2> QED
    BY <1>1, <1>2, SMT DEF Allowed
<1> HIDE DEF cp, ok
<1> QED
  BY <1>1, <1>2, <1>3, SMT DEF Spells

LEMMA UpToThree == \A n : n \in 0 .. 3 <=> n = 0 \/ n = 1 \/ n = 2 \/ n = 3
OBVIOUS

\* The bytes that a sequence may have.
LEMMA BytesOf ==
  ASSUME NEW b \in Seq(Byte), NEW i \in 1 .. Len(b)
  PROVE  /\ b[i] \in Byte /\ i + 0 <= Len(b)
         /\ i + 1 <= Len(b) => b[i + 1] \in Byte
         /\ i + 2 <= Len(b) => b[i + 1] \in Byte /\ b[i + 2] \in Byte
         /\ i + 3 <= Len(b) => b[i + 1] \in Byte /\ b[i + 2] \in Byte /\ b[i + 3] \in Byte
<1>1. Len(b) \in Nat /\ \A j \in 1 .. Len(b) : b[j] \in Byte
  BY PointsOf
<1> QED
  BY <1>1

\* Bytes are a sequence when they are read as what they spell.
LEMMA Reads0 ==
  ASSUME NEW b \in Seq(Byte), NEW i \in 1 .. Len(b)
  PROVE  /\ Sequence(b, i, 0) <=> Headed(b[i], 0)
         /\ Sequence(b, i, 0) => Allowed(Spelled(b, i, 0), 0) /\ Spells(b, i, 0, SubSeq(b, i, i + 0))
<1>1. b[i] \in Byte /\ i + 0 <= Len(b)
  BY BytesOf, Zenon
<1>2. SubSeq(b, i, i + 0) = <<b[i]>>
  BY CutFew, Zenon
<1>3. (b[i] < 128 <=> b[i] \in 0 .. 127) /\ (Headed(b[i], 0) <=> b[i] < 128)
  BY <1>1, ByteLeads, LeadsOf, SMTT(60)
<1>4. Sequence(b, i, 0) <=> b[i] < 128
  BY <1>1, <1>3, Sequence0, SMT
<1>5. b[i] < 128 => Allowed(Spelled(b, i, 0), 0) /\ Spells(b, i, 0, <<b[i]>>)
  BY <1>1, SpelledOne, SMT
<1> QED
  BY <1>2, <1>3, <1>4, <1>5, Zenon

LEMMA Reads1 ==
  ASSUME NEW b \in Seq(Byte), NEW i \in 1 .. Len(b)
  PROVE  /\ Sequence(b, i, 1) <=>
              Headed(b[i], 1) /\ Continuation(b, i, 1) /\ Allowed(Spelled(b, i, 1), 1)
         /\ Sequence(b, i, 1) => Spells(b, i, 1, SubSeq(b, i, i + 1))
<1> DEFINE tails == Later(b[i + 1])
           lead == Lead2(b[i])
           bytes == <<b[i], b[i + 1]>>
<1>1. ASSUME i + 1 <= Len(b)
      PROVE  /\ Continuation(b, i, 1) <=> tails
             /\ lead => Headed(b[i], 1)
             /\ Headed(b[i], 1) /\ tails => (Allowed(Spelled(b, i, 1), 1) <=> lead)
             /\ Headed(b[i], 1) /\ tails /\ Allowed(Spelled(b, i, 1), 1) => Spells(b, i, 1, bytes)
             /\ SubSeq(b, i, i + 1) = bytes
  <2>1. b[i] \in Byte /\ b[i + 1] \in Byte
    BY <1>1, BytesOf, Zenon
  <2>2. SubSeq(b, i, i + 1) = bytes
    BY <1>1, CutFew, Zenon
  <2>3. Continuation(b, i, 1) <=> tails
    BY <1>1, <2>1, Continuation1, ByteContinues, Zenon
  <2>4. lead => Headed(b[i], 1)
    BY <2>1, HeadedLead2, Zenon
  <2>5. Headed(b[i], 1) /\ tails =>
          /\ Allowed(Spelled(b, i, 1), 1) <=> lead
          /\ Allowed(Spelled(b, i, 1), 1) => Spells(b, i, 1, bytes)
    BY <2>1, SpelledTwo, Zenon
  <2> HIDE DEF tails, lead, bytes
  <2> QED
    BY <2>2, <2>3, <2>4, <2>5, Zenon
<1>2. Sequence(b, i, 1) <=> i + 1 <= Len(b) /\ lead /\ tails
  BY Sequence1, Zenon
<1>3. Continuation(b, i, 1) => i + 1 <= Len(b)
  BY Continuation1, Zenon
<1> HIDE DEF tails, lead, bytes
<1> QED
  BY <1>1, <1>2, <1>3, Zenon

LEMMA Reads2 ==
  ASSUME NEW b \in Seq(Byte), NEW i \in 1 .. Len(b)
  PROVE  /\ Sequence(b, i, 2) <=>
              Headed(b[i], 2) /\ Continuation(b, i, 2) /\ Allowed(Spelled(b, i, 2), 2)
         /\ Sequence(b, i, 2) => Spells(b, i, 2, SubSeq(b, i, i + 2))
<1> DEFINE tails == Later(b[i + 1]) /\ Later(b[i + 2])
           lead == Lead3(b[i], b[i + 1])
           bytes == <<b[i], b[i + 1], b[i + 2]>>
<1>1. ASSUME i + 2 <= Len(b)
      PROVE  /\ Continuation(b, i, 2) <=> tails
             /\ lead => Headed(b[i], 2)
             /\ Headed(b[i], 2) /\ tails => (Allowed(Spelled(b, i, 2), 2) <=> lead)
             /\ Headed(b[i], 2) /\ tails /\ Allowed(Spelled(b, i, 2), 2) => Spells(b, i, 2, bytes)
             /\ SubSeq(b, i, i + 2) = bytes
  <2>1. b[i] \in Byte /\ b[i + 1] \in Byte /\ b[i + 2] \in Byte
    BY <1>1, BytesOf, Zenon
  <2>2. SubSeq(b, i, i + 2) = bytes
    BY <1>1, CutFew, Zenon
  <2>3. Continuation(b, i, 2) <=> tails
    BY <1>1, <2>1, Continuation2, ByteContinues, ZenonT(60)
  <2>4. lead => Headed(b[i], 2)
    BY <2>1, HeadedLead3, Zenon
  <2>5. Headed(b[i], 2) /\ tails =>
          /\ Allowed(Spelled(b, i, 2), 2) <=> lead
          /\ Allowed(Spelled(b, i, 2), 2) => Spells(b, i, 2, bytes)
    BY <2>1, SpelledThree, Zenon
  <2> HIDE DEF tails, lead, bytes
  <2> QED
    BY <2>2, <2>3, <2>4, <2>5, Zenon
<1>2. Sequence(b, i, 2) <=> i + 2 <= Len(b) /\ lead /\ tails
  BY Sequence2, Zenon
<1>3. Continuation(b, i, 2) => i + 2 <= Len(b)
  BY Continuation2, Zenon
<1> HIDE DEF tails, lead, bytes
<1> QED
  BY <1>1, <1>2, <1>3, Zenon

LEMMA Reads3 ==
  ASSUME NEW b \in Seq(Byte), NEW i \in 1 .. Len(b)
  PROVE  /\ Sequence(b, i, 3) <=>
              Headed(b[i], 3) /\ Continuation(b, i, 3) /\ Allowed(Spelled(b, i, 3), 3)
         /\ Sequence(b, i, 3) => Spells(b, i, 3, SubSeq(b, i, i + 3))
<1> DEFINE tails == Later(b[i + 1]) /\ Later(b[i + 2]) /\ Later(b[i + 3])
           lead == Lead4(b[i], b[i + 1])
           bytes == <<b[i], b[i + 1], b[i + 2], b[i + 3]>>
<1>1. ASSUME i + 3 <= Len(b)
      PROVE  /\ Continuation(b, i, 3) <=> tails
             /\ lead => Headed(b[i], 3)
             /\ Headed(b[i], 3) /\ tails => (Allowed(Spelled(b, i, 3), 3) <=> lead)
             /\ Headed(b[i], 3) /\ tails /\ Allowed(Spelled(b, i, 3), 3) => Spells(b, i, 3, bytes)
             /\ SubSeq(b, i, i + 3) = bytes
  <2>1. b[i] \in Byte /\ b[i + 1] \in Byte /\ b[i + 2] \in Byte /\ b[i + 3] \in Byte
    BY <1>1, BytesOf, Zenon
  <2>2. SubSeq(b, i, i + 3) = bytes
    BY <1>1, CutFew, Zenon
  <2>3. Continuation(b, i, 3) <=> tails
    BY <1>1, <2>1, Continuation3, ByteContinues, ZenonT(60)
  <2>4. lead => Headed(b[i], 3)
    BY <2>1, HeadedLead4, Zenon
  <2>5. Headed(b[i], 3) /\ tails =>
          /\ Allowed(Spelled(b, i, 3), 3) <=> lead
          /\ Allowed(Spelled(b, i, 3), 3) => Spells(b, i, 3, bytes)
    BY <2>1, SpelledFour, Zenon
  <2> HIDE DEF tails, lead, bytes
  <2> QED
    BY <2>2, <2>3, <2>4, <2>5, Zenon
<1>2. Sequence(b, i, 3) <=> i + 3 <= Len(b) /\ lead /\ tails
  BY Sequence3, Zenon
<1>3. Continuation(b, i, 3) => i + 3 <= Len(b)
  BY Continuation3, Zenon
<1> HIDE DEF tails, lead, bytes
<1> QED
  BY <1>1, <1>2, <1>3, Zenon

\* For any number of bytes.
LEMMA Reads ==
  ASSUME NEW b \in Seq(Byte), NEW i \in 1 .. Len(b), NEW n \in 0 .. 3
  PROVE  /\ Sequence(b, i, n) <=>
              /\ Headed(b[i], n) /\ (n = 0 \/ Continuation(b, i, n))
              /\ Allowed(Spelled(b, i, n), n)
         /\ Sequence(b, i, n) => Spells(b, i, n, SubSeq(b, i, i + n))
<1>1. CASE n = 0
  <2>1. Allowed(Spelled(b, i, 0), 0)
    BY SMT DEF Allowed
  <2> QED
    BY <1>1, <2>1, Reads0, Zenon
<1>2. n # 0 => n = 1 \/ n = 2 \/ n = 3
  BY UpToThree, Zenon
<1>3. CASE n # 0
  BY <1>2, <1>3, Reads1, Reads2, Reads3, Zenon
<1> QED
  BY <1>1, <1>3, Zenon

\* A sequence is read for what it is, and a byte that begins none is replaced.
Rightly(b, i, n) ==
  /\ Sequence(b, i, n) /\ CodeAt(b, i).next = i + n + 1
  /\ Scalar(CodeAt(b, i).cp) /\ Utf8(CodeAt(b, i).cp) = SubSeq(b, i, i + n)
  /\ Wide(CodeAt(b, i).cp) => n = 3
NotRead(b, i) ==
  /\ CodeAt(b, i).cp = Replacement /\ CodeAt(b, i).next \in i + 1 .. Len(b) + 1
  /\ \A n \in 0 .. 3 : ~Sequence(b, i, n)

\* The branches of the code.
LEMMA CodeAtIs ==
  ASSUME NEW b \in Seq(Byte), NEW i \in 1 .. Len(b)
  PROVE  \/ \E n \in 0 .. 3 : /\ Headed(b[i], n) /\ (n = 0 \/ Continuation(b, i, n))
                              /\ CodeAt(b, i) = Code(b, i, n)
         \/ /\ \A n \in 0 .. 3 : ~(Headed(b[i], n) /\ (n = 0 \/ Continuation(b, i, n)))
            /\ CodeAt(b, i) = [cp |-> Replacement, next |-> i + 1]
<1>1. b[i] \in Byte
  BY BytesOf, Zenon
<1>2. /\ Headed(b[i], 0) <=> b[i] < 128
      /\ Headed(b[i], 1) <=> b[i] \div 32 = 6
      /\ Headed(b[i], 2) <=> b[i] \div 16 = 14
      /\ Headed(b[i], 3) <=> b[i] \div 8 = 30
  BY <1>1, LeadsOf, Zenon
<1>3. CodeAt(b, i) = IF Headed(b[i], 0) THEN Code(b, i, 0)
                     ELSE IF Headed(b[i], 1) /\ Continuation(b, i, 1) THEN Code(b, i, 1)
                     ELSE IF Headed(b[i], 2) /\ Continuation(b, i, 2) THEN Code(b, i, 2)
                     ELSE IF Headed(b[i], 3) /\ Continuation(b, i, 3) THEN Code(b, i, 3)
                     ELSE [cp |-> Replacement, next |-> i + 1]
  BY <1>2, Zenon DEF CodeAt
<1>4. 0 \in 0 .. 3 /\ 1 \in 0 .. 3 /\ 2 \in 0 .. 3 /\ 3 \in 0 .. 3 /\ 1 # 0 /\ 2 # 0 /\ 3 # 0
  OBVIOUS
<1>5. CASE Headed(b[i], 0)
  BY <1>3, <1>4, <1>5, Zenon
<1>6. CASE ~Headed(b[i], 0) /\ Headed(b[i], 1) /\ Continuation(b, i, 1)
  BY <1>3, <1>4, <1>6, Zenon
<1>7. CASE /\ ~Headed(b[i], 0) /\ ~(Headed(b[i], 1) /\ Continuation(b, i, 1))
           /\ Headed(b[i], 2) /\ Continuation(b, i, 2)
  BY <1>3, <1>4, <1>7, Zenon
<1>8. CASE /\ ~Headed(b[i], 0) /\ ~(Headed(b[i], 1) /\ Continuation(b, i, 1))
           /\ ~(Headed(b[i], 2) /\ Continuation(b, i, 2))
           /\ Headed(b[i], 3) /\ Continuation(b, i, 3)
  BY <1>3, <1>4, <1>8, Zenon
<1>9. CASE /\ ~Headed(b[i], 0) /\ ~(Headed(b[i], 1) /\ Continuation(b, i, 1))
           /\ ~(Headed(b[i], 2) /\ Continuation(b, i, 2))
           /\ ~(Headed(b[i], 3) /\ Continuation(b, i, 3))
  BY <1>3, <1>4, <1>9, UpToThree, Zenon
<1> QED
  BY <1>5, <1>6, <1>7, <1>8, <1>9, Zenon

\* A sequence is read for what it spells, and one byte is replaced where none is.
LEMMA CodeIs ==
  ASSUME NEW b \in Seq(Byte), NEW i \in 1 .. Len(b)
  PROVE  (\E n \in 0 .. 3 : Rightly(b, i, n)) \/ NotRead(b, i)
<1>1. b[i] \in Byte /\ Len(b) \in Nat
  BY BytesOf, PointsOf, Zenon
<1>2. CASE /\ \A n \in 0 .. 3 : ~(Headed(b[i], n) /\ (n = 0 \/ Continuation(b, i, n)))
           /\ CodeAt(b, i) = [cp |-> Replacement, next |-> i + 1]
  <2>1. CodeAt(b, i).cp = Replacement /\ CodeAt(b, i).next = i + 1
    BY <1>2, SMT
  <2>2. i + 1 \in i + 1 .. Len(b) + 1
    BY <1>1
  <2>3. \A n \in 0 .. 3 : ~Sequence(b, i, n)
    BY <1>2, Reads, Zenon
  <2> QED
    BY <2>1, <2>2, <2>3, Zenon DEF NotRead
<1>3. ASSUME NEW n \in 0 .. 3, Headed(b[i], n), n = 0 \/ Continuation(b, i, n),
             CodeAt(b, i) = Code(b, i, n)
      PROVE  Rightly(b, i, n) \/ NotRead(b, i)
  <2>1. /\ CodeAt(b, i).next = i + n + 1
        /\ Allowed(Spelled(b, i, n), n) => CodeAt(b, i).cp = Spelled(b, i, n)
        /\ ~Allowed(Spelled(b, i, n), n) => CodeAt(b, i).cp = Replacement
    <3>1. /\ Code(b, i, n).next = i + n + 1
          /\ Allowed(Spelled(b, i, n), n) => Code(b, i, n).cp = Spelled(b, i, n)
          /\ ~Allowed(Spelled(b, i, n), n) => Code(b, i, n).cp = Replacement
      BY Zenon DEF Code
    <3> QED
      BY <1>3, <3>1, Zenon
  <2>2. CASE Allowed(Spelled(b, i, n), n)
    <3>1. Sequence(b, i, n) /\ Spells(b, i, n, SubSeq(b, i, i + n))
      BY <1>3, <2>2, Reads, Zenon
    <3> QED
      BY <2>1, <2>2, <3>1, Zenon DEF Rightly, Spells
  <2>3. CASE ~Allowed(Spelled(b, i, n), n)
    <3>1. ASSUME NEW m \in 0 .. 3, Sequence(b, i, m) PROVE FALSE
      <4>1. Headed(b[i], m) /\ Allowed(Spelled(b, i, m), m)
        BY <3>1, Reads, Zenon
      <4>2. m = n
        BY <1>1, <1>3, <4>1, HeadedOnly, Zenon
      <4> QED
        BY <2>3, <4>1, <4>2, Zenon
    <3>2. i + n <= Len(b)
      <4>1. CASE n = 0
        BY <4>1, BytesOf, Zenon
      <4>2. CASE n # 0
        BY <1>3, <4>2, Zenon DEF Continuation
      <4> QED
        BY <4>1, <4>2
    <3>3. i + n + 1 \in i + 1 .. Len(b) + 1
      BY <1>1, <3>2
    <3> QED
      BY <2>1, <2>3, <3>1, <3>3, Zenon DEF NotRead
  <2> QED
    BY <2>2, <2>3, Zenon
<1> QED
  BY <1>2, <1>3, CodeAtIs, Zenon

-----------------------------------------------------------------------------
(* Command lines: where sequences are, and where none is.                  *)

LEMMA LaterNotHeaded ==
  ASSUME NEW c \in Byte, NEW n \in 0 .. 3, Headed(c, n)
  PROVE  ~Later(c)
<1>1. /\ c < 128 <=> c \in 0 .. 127
      /\ c \div 32 = 6 <=> c \in 192 .. 223
      /\ c \div 16 = 14 <=> c \in 224 .. 239
      /\ c \div 8 = 30 <=> c \in 240 .. 247
  BY ByteLeads, SMT
<1> QED
  BY <1>1, SMT DEF Headed, Later

\* A sequence begins with a first byte and goes on with later ones.
LEMMA SequenceParts ==
  ASSUME NEW b \in Seq(Byte), NEW i \in 1 .. Len(b), NEW n \in 0 .. 3, Sequence(b, i, n)
  PROVE  Headed(b[i], n) /\ i + n <= Len(b) /\ ~Later(b[i]) /\ \A k \in 1 .. n : Later(b[i + k])
<1>1. Headed(b[i], n) /\ (n = 0 \/ Continuation(b, i, n))
  BY Reads, Zenon
<1>2. b[i] \in Byte /\ i + 0 <= Len(b) /\ Len(b) \in Nat /\ \A j \in 1 .. Len(b) : b[j] \in Byte
  BY BytesOf, PointsOf, Zenon
<1>3. ~Later(b[i])
  BY <1>1, <1>2, LaterNotHeaded, Zenon
<1>4. CASE n = 0
  <2>1. 1 .. 0 = {}
    OBVIOUS
  <2> QED
    BY <1>1, <1>2, <1>3, <1>4, <2>1, Zenon
<1>5. CASE n # 0
  <2>1. i + n <= Len(b) /\ \A k \in 1 .. n : b[i + k] \div 64 = 2
    BY <1>1, <1>5, Zenon DEF Continuation
  <2>2. \A k \in 1 .. n : i + k \in 1 .. Len(b)
    BY <1>2, <2>1
  <2>3. \A k \in 1 .. n : Later(b[i + k])
    BY <1>2, <2>1, <2>2, ByteContinues, Zenon
  <2> QED
    BY <1>1, <1>3, <2>1, <2>3, Zenon
<1> QED
  BY <1>4, <1>5

\* At one place there is one sequence at most.
LEMMA SequenceOnly ==
  ASSUME NEW b \in Seq(Byte), NEW i \in 1 .. Len(b), NEW m \in 0 .. 3, NEW n \in 0 .. 3,
         Sequence(b, i, m), Sequence(b, i, n)
  PROVE  m = n
<1>1. b[i] \in Byte /\ Headed(b[i], m) /\ Headed(b[i], n)
  BY SequenceParts, BytesOf, Zenon
<1> QED
  BY <1>1, HeadedOnly, Zenon

\* The bytes before a place are in sequences that end before it.
Tiled(b, at) ==
  \A j \in 1 .. at - 1 : \E p \in 1 .. j, n \in 0 .. 3 : j <= p + n /\ p + n < at /\ Sequence(b, p, n)

LEMMA TiledFirst ==
  ASSUME NEW b
  PROVE  Tiled(b, 1)
BY DEF Tiled

\* Sequences one after the other.
LEMMA TiledNext ==
  ASSUME NEW b, NEW at \in Nat \ {0}, NEW n \in 0 .. 3, Tiled(b, at), Sequence(b, at, n)
  PROVE  Tiled(b, at + n + 1)
<1> SUFFICES ASSUME NEW j \in 1 .. (at + n + 1) - 1
             PROVE  \E p \in 1 .. j, m \in 0 .. 3 : j <= p + m /\ p + m < at + n + 1 /\ Sequence(b, p, m)
  BY DEF Tiled
<1>1. CASE j < at
  <2>1. j \in 1 .. at - 1
    BY <1>1
  <2>2. PICK p \in 1 .. j, m \in 0 .. 3 : j <= p + m /\ p + m < at /\ Sequence(b, p, m)
    BY <2>1, Zenon DEF Tiled
  <2>3. p + m < at + n + 1
    BY <2>2
  <2> QED
    BY <2>2, <2>3
<1>2. CASE j >= at
  <2>1. at \in 1 .. j /\ j <= at + n /\ at + n < at + n + 1
    BY <1>2
  <2> QED
    BY <2>1
<1> QED
  BY <1>1, <1>2

LEMMA TiledAll ==
  ASSUME NEW b \in Seq(Byte), Tiled(b, Len(b) + 1)
  PROVE  WellFormed(b)
<1> SUFFICES ASSUME NEW i \in DOMAIN b
             PROVE  \E n \in 0 .. 3, j \in 1 .. i : i <= j + n /\ Sequence(b, j, n)
  BY DEF WellFormed
<1>1. Len(b) \in Nat /\ i \in 1 .. Len(b)
  BY PointsOf
<1>2. i \in 1 .. (Len(b) + 1) - 1
  BY <1>1
<1>3. PICK p \in 1 .. i, n \in 0 .. 3 : i <= p + n /\ p + n < Len(b) + 1 /\ Sequence(b, p, n)
  BY <1>2, Zenon DEF Tiled
<1> QED
  BY <1>3

\* Where none begins after they end, the bytes are not well formed.
LEMMA TiledGap ==
  ASSUME NEW b \in Seq(Byte), NEW at \in 1 .. Len(b), Tiled(b, at),
         \A n \in 0 .. 3 : ~Sequence(b, at, n)
  PROVE  ~WellFormed(b)
<1> SUFFICES ASSUME WellFormed(b) PROVE FALSE
  OBVIOUS
<1>1. Len(b) \in Nat /\ DOMAIN b = 1 .. Len(b)
  BY PointsOf
<1>2. PICK n \in 0 .. 3, j \in 1 .. at : at <= j + n /\ Sequence(b, j, n)
  BY <1>1 DEF WellFormed
<1>3. j # at
  BY <1>2
<1>4. j \in 1 .. at - 1 /\ j \in 1 .. Len(b)
  BY <1>1, <1>2, <1>3
<1>5. PICK p \in 1 .. j, m \in 0 .. 3 : j <= p + m /\ p + m < at /\ Sequence(b, p, m)
  BY <1>4, Zenon DEF Tiled
<1>6. p \in 1 .. Len(b)
  BY <1>1, <1>4, <1>5
<1>7. CASE p = j
  <2>1. m = n
    BY <1>2, <1>4, <1>5, <1>7, SequenceOnly, Zenon
  <2> QED
    BY <1>2, <1>5, <1>7, <2>1
<1>8. CASE p # j
  <2>1. j - p \in 1 .. m /\ p + (j - p) = j
    BY <1>5, <1>8
  <2>2. Later(b[p + (j - p)])
    BY <1>5, <1>6, <2>1, SequenceParts, Zenon
  <2>3. ~Later(b[j])
    BY <1>2, <1>4, SequenceParts, Zenon
  <2> QED
    BY <2>1, <2>2, <2>3, Zenon
<1> QED
  BY <1>7, <1>8

-----------------------------------------------------------------------------
(* Command lines: UTF-16, and the bytes that it says.                      *)

\* Each half of a surrogate pair has the other.
HighAt(u, i) == i \in DOMAIN u /\ u[i] \in High
LowAt(u, i) == i \in DOMAIN u /\ u[i] \in Low
Paired(u) == \A i \in 0 .. Len(u) : HighAt(u, i) <=> LowAt(u, i + 1)

LEMMA Utf8Type ==
  ASSUME NEW cp \in Nat
  PROVE  Utf8(cp) \in Seq(Nat)
<1>1. cp \div 64 \in Nat /\ cp % 64 \in Nat
  BY SMT
<1>2. cp \div 4096 \in Nat /\ (cp \div 64) % 64 \in Nat
  BY SMT
<1>3. cp \div 262144 \in Nat /\ (cp \div 4096) % 64 \in Nat
  BY SMT
<1> DEFINE p == cp \div 64
           q == cp \div 4096
           r == cp \div 262144
           x == cp % 64
           y == p % 64
           z == q % 64
<1>4. p \in Nat /\ q \in Nat /\ r \in Nat /\ x \in Nat /\ y \in Nat /\ z \in Nat
  BY <1>1, <1>2, <1>3
<1> DEFINE one == <<cp>>
           two == <<192 + p, 128 + x>>
           three == <<224 + q, 128 + y, 128 + x>>
           four == <<240 + r, 128 + z, 128 + y, 128 + x>>
<1>5. Utf8(cp) = one \/ Utf8(cp) = two \/ Utf8(cp) = three \/ Utf8(cp) = four
  BY SMT DEF Utf8
<1> HIDE DEF p, q, r, x, y, z
<1>6. one \in Seq(Nat) /\ two \in Seq(Nat) /\ three \in Seq(Nat) /\ four \in Seq(Nat)
  BY <1>4, SMT
<1> HIDE DEF one, two, three, four
<1> QED
  BY <1>5, <1>6, Zenon

LEMMA PairPoint ==
  ASSUME NEW h \in High, NEW l \in Low
  PROVE  65536 + (h - 55296) * 1024 + l - 56320 \in Nat
BY SMTT(60) DEF High, Low

LEMMA EncodeType ==
  ASSUME NEW u \in Seq(Nat), Paired(u), NEW n \in 1 .. Len(u)
  PROVE  Encode(u, n) \in Seq(Nat)
<1>1. Len(u) \in Nat /\ DOMAIN u = 1 .. Len(u) /\ \A i \in 1 .. Len(u) : u[i] \in Nat
  BY PointsOf
<1>2. CASE u[n] \in High
  BY <1>2, EmptySeq, SMT DEF Encode
<1>3. CASE u[n] \notin High /\ u[n] \in Low
  <2>1. n - 1 \in 0 .. Len(u) /\ (n - 1) + 1 = n
    BY <1>1
  <2>2. LowAt(u, (n - 1) + 1)
    BY <1>1, <1>3, <2>1, Zenon DEF LowAt
  <2>3. u[n - 1] \in High
    BY <2>1, <2>2, Zenon DEF Paired, HighAt
  <2> DEFINE cp == 65536 + (u[n - 1] - 55296) * 1024 + u[n] - 56320
  <2>4. cp \in Nat
    BY <1>3, <2>3, PairPoint, SMTT(80)
  <2>5. Encode(u, n) = Utf8(cp)
    BY <1>3, SMT DEF Encode
  <2> HIDE DEF cp
  <2> QED
    BY <2>4, <2>5, Utf8Type, SMT
<1>4. CASE u[n] \notin High /\ u[n] \notin Low
  <2>1. Encode(u, n) = Utf8(u[n]) /\ u[n] \in Nat
    BY <1>1, <1>4, SMT DEF Encode
  <2> QED
    BY <2>1, Utf8Type, SMTT(60)
<1> QED
  BY <1>2, <1>3, <1>4, Zenon

LEMMA JoinBytes ==
  ASSUME NEW s \in Seq(Nat), NEW t \in Seq(Nat)
  PROVE  s \o t \in Seq(Nat)
BY ConcatPoints

\* The bytes, unit by unit.
LEMMA EncodedIs ==
  ASSUME NEW u \in Seq(Nat), Paired(u)
  PROVE  \E f \in [0 .. Len(u) -> Seq(Nat)] :
           /\ f[0] = << >> /\ Encoded(u) = f[Len(u)]
           /\ \A n \in 1 .. Len(u) : f[n] = f[n - 1] \o Encode(u, n)
<1> DEFINE N == Len(u)
           S == Seq(Nat)
           start == << >>
           step == [q \in (1 .. N) \X S |-> q[2] \o Encode(u, q[1])]
           Eqn(f) == f = [n \in 0 .. N |-> IF n = 0 THEN start ELSE f[n - 1] \o Encode(u, n)]
           after == CHOOSE f : Eqn(f)
<1>0. N \in Nat
  BY PointsOf
<1>1. start \in S
  BY EmptySeq
<1>2. \A n \in 1 .. N, v \in S : v \o Encode(u, n) \in S
  BY EncodeType, JoinBytes
<1> HIDE DEF S, start
<1>3. step \in [(1 .. N) \X S -> S]
  <2>1. \A q \in (1 .. N) \X S : q[2] \o Encode(u, q[1]) \in S
    BY <1>2
  <2> QED
    BY <2>1
<1>4. PICK g : IteratesIn(g, N, S, start, step)
  <2> HIDE DEF step, N
  <2>1. \E f : IteratesIn(f, N, S, start, step)
    BY <1>0, <1>1, <1>3, IterationIn
  <2> QED
    BY <2>1
<1>5. \A n \in 1 .. N : g[n] = g[n - 1] \o Encode(u, n)
  <2> TAKE n \in 1 .. N
  <2>1. n - 1 \in 0 .. N
    BY <1>0
  <2>2. <<n, g[n - 1]>> \in (1 .. N) \X S
    BY <1>4, <2>1 DEF IteratesIn
  <2> QED
    BY <1>4, <2>2 DEF IteratesIn
<1>6. Eqn(g)
  <2>1. \A n \in 0 .. N : n # 0 => n \in 1 .. N
    BY <1>0
  <2>2. \A n \in 0 .. N : g[n] = IF n = 0 THEN start ELSE g[n - 1] \o Encode(u, n)
    <3> HIDE DEF N, step
    <3> QED
      BY <1>4, <1>5, <2>1, SMTT(60) DEF IteratesIn
  <2> QED
    BY <1>4, <2>2 DEF IteratesIn
<1>7. Eqn(after)
  <2> HIDE DEF Eqn
  <2> QED
    BY <1>6
<1>8. Encoded(u) = after[N]
  BY DEF Encoded, start
<1>9. /\ after[0] = start
      /\ \A n \in 1 .. N : after[n] = after[n - 1] \o Encode(u, n)
  <2>1. 0 \in 0 .. N /\ \A n \in 1 .. N : n \in 0 .. N /\ n # 0
    BY <1>0
  <2> HIDE DEF after, N
  <2> QED
    BY <1>7, <2>1
<1>10. \A n \in 0 .. N : after[n] \in S
  <2> DEFINE X == [n \in 0 .. N |-> S]
  <2>1. /\ 0 \in 0 .. N /\ \A n \in 1 .. N : n \in 0 .. N /\ n - 1 \in 0 .. N
    <3> HIDE DEF N, S, start, step, after
    <3> QED
      BY <1>0, PassesOf, ZenonT(60)
  <2>2. after[0] \in X[0]
    <3> HIDE DEF N, S, start, step, after
    <3> QED
      BY <1>1, <1>9, <2>1, SMTT(60)
  <2> HIDE DEF after
  <2>3. ASSUME NEW n \in 1 .. N, after[n - 1] \in X[n - 1] PROVE after[n] \in X[n]
    BY <1>2, <1>9, <2>1, <2>3
  <2>4. \A n \in 0 .. N : after[n] \in X[n]
    <3> HIDE DEF X, N
    <3> QED
      BY <1>0, <2>2, <2>3, Induct
  <2> QED
    BY <2>4
<1>11. after \in [0 .. N -> S]
  <2> HIDE DEF S, N
  <2>1. after = [n \in 0 .. N |-> after[n]]
    <3> HIDE DEF after
    <3> QED
      BY <1>7
  <2> HIDE DEF after
  <2> QED
    BY <1>10, <2>1
<1> HIDE DEF after
<1> QED
  BY <1>8, <1>9, <1>11 DEF S, start

LEMMA HighNotLow == ASSUME NEW x \in High PROVE x \notin Low /\ x \in Nat
BY SMTT(60) DEF High, Low
LEMMA LowNotHigh == ASSUME NEW x \in Low PROVE x \notin High /\ x \in Nat
BY SMTT(60) DEF High, Low

\* A unit is read with the one before it only.
LEMMA EncodeSame ==
  ASSUME NEW u \in Seq(Nat), NEW w \in Seq(Nat), Paired(u), Len(w) >= Len(u),
         \A i \in 1 .. Len(u) : w[i] = u[i], NEW n \in 1 .. Len(u)
  PROVE  Encode(w, n) = Encode(u, n)
<1>1. Len(u) \in Nat /\ DOMAIN u = 1 .. Len(u) /\ w[n] = u[n]
  BY PointsOf
<1>2. CASE u[n] \in High
  BY <1>1, <1>2, SMT DEF Encode
<1>3. CASE u[n] \notin High /\ u[n] \in Low
  <2>1. n - 1 \in 0 .. Len(u) /\ (n - 1) + 1 = n
    BY <1>1
  <2>2. LowAt(u, (n - 1) + 1)
    BY <1>1, <1>3, <2>1, Zenon DEF LowAt
  <2>3. n - 1 \in 1 .. Len(u)
    BY <1>1, <2>1, <2>2, Zenon DEF Paired, HighAt
  <2>4. w[n - 1] = u[n - 1]
    BY <2>3
  <2> QED
    BY <1>1, <1>3, <2>4, SMT DEF Encode
<1>4. CASE u[n] \notin High /\ u[n] \notin Low
  BY <1>1, <1>4, SMT DEF Encode
<1> QED
  BY <1>2, <1>3, <1>4, Zenon

\* More units do not change the bytes of those before.
LEMMA EncodedFrom ==
  ASSUME NEW u \in Seq(Nat), NEW w \in Seq(Nat), Paired(u), Paired(w), Len(w) >= Len(u),
         \A i \in 1 .. Len(u) : w[i] = u[i]
  PROVE  \E f \in [0 .. Len(w) -> Seq(Nat)] :
           /\ f[Len(u)] = Encoded(u) /\ Encoded(w) = f[Len(w)]
           /\ \A n \in 1 .. Len(w) : f[n] = f[n - 1] \o Encode(w, n)
<1>1. Len(u) \in Nat /\ Len(w) \in Nat
  BY PointsOf
<1>2. PICK f \in [0 .. Len(w) -> Seq(Nat)] :
        /\ f[0] = << >> /\ Encoded(w) = f[Len(w)]
        /\ \A n \in 1 .. Len(w) : f[n] = f[n - 1] \o Encode(w, n)
  BY EncodedIs
<1>3. PICK g \in [0 .. Len(u) -> Seq(Nat)] :
        /\ g[0] = << >> /\ Encoded(u) = g[Len(u)]
        /\ \A n \in 1 .. Len(u) : g[n] = g[n - 1] \o Encode(u, n)
  BY EncodedIs
<1> DEFINE X == [n \in 0 .. Len(u) |-> {g[n]}]
<1>4. 0 \in 0 .. Len(u) /\ \A n \in 1 .. Len(u) : n \in 0 .. Len(u) /\ n - 1 \in 0 .. Len(u) /\ n \in 1 .. Len(w)
  BY <1>1
<1>5. \A n \in 0 .. Len(u) : X[n] = {g[n]}
  OBVIOUS
<1> HIDE DEF X
<1>6. f[0] \in X[0]
  BY <1>2, <1>3, <1>4, <1>5, Zenon
<1>7. ASSUME NEW n \in 1 .. Len(u), f[n - 1] \in X[n - 1] PROVE f[n] \in X[n]
  <2>1. f[n - 1] = g[n - 1]
    BY <1>4, <1>5, <1>7
  <2>2. Encode(w, n) = Encode(u, n)
    BY EncodeSame, Zenon
  <2>3. f[n] = f[n - 1] \o Encode(w, n)
    BY <1>2, <1>4, Zenon
  <2>4. g[n] = g[n - 1] \o Encode(u, n)
    BY <1>3, Zenon
  <2>5. f[n] = g[n]
    BY <2>1, <2>2, <2>3, <2>4, Zenon
  <2> QED
    BY <1>4, <1>5, <2>5, Zenon
<1>8. \A n \in 0 .. Len(u) : f[n] \in X[n]
  BY <1>1, <1>6, <1>7, Induct
<1>9. f[Len(u)] = Encoded(u)
  <2>1. Len(u) \in 0 .. Len(u)
    BY <1>1
  <2>2. f[Len(u)] \in {g[Len(u)]}
    BY <1>5, <1>8, <2>1, Zenon
  <2> QED
    BY <1>3, <2>2
<1> QED
  BY <1>2, <1>9, Zenon

\* One more unit, which is no half of a pair.
LEMMA EncodedOne ==
  ASSUME NEW u \in Seq(Nat), Paired(u), NEW x \in Nat, x \notin High, x \notin Low
  PROVE  LET w == u \o <<x>>
         IN  /\ w \in Seq(Nat) /\ Len(w) = Len(u) + 1 /\ w[Len(u) + 1] = x
             /\ \A i \in 1 .. Len(u) : w[i] = u[i]
             /\ Paired(w) /\ Encoded(w) = Encoded(u) \o Utf8(x)
<1> DEFINE w == u \o <<x>>
           L == Len(u)
<1>1. /\ w \in Seq(Nat) /\ Len(w) = L + 1 /\ w[L + 1] = x /\ \A i \in 1 .. L : w[i] = u[i]
  <2>1. <<x>> \in Seq(Nat) /\ Len(<<x>>) = 1 /\ <<x>>[1] = x /\ 1 \in 1 .. 1
    OBVIOUS
  <2>2. /\ w \in Seq(Nat) /\ Len(w) = L + Len(<<x>>)
        /\ \A i \in 1 .. L : w[i] = u[i]
        /\ \A i \in 1 .. Len(<<x>>) : w[L + i] = <<x>>[i]
    <3> DEFINE t == <<x>>
    <3>1. t \in Seq(Nat)
      BY <2>1
    <3> HIDE DEF t
    <3>2. /\ u \o t \in Seq(Nat) /\ Len(u \o t) = Len(u) + Len(t)
          /\ \A i \in 1 .. Len(u) : (u \o t)[i] = u[i]
          /\ \A i \in 1 .. Len(t) : (u \o t)[Len(u) + i] = t[i]
      BY <3>1, ConcatPoints
    <3> QED
      BY <3>2 DEF t
  <2> HIDE DEF w
  <2> QED
    BY <2>1, <2>2, Zenon
<1> HIDE DEF w
<1>2. L \in Nat /\ DOMAIN u = 1 .. L /\ DOMAIN w = 1 .. L + 1
  <2>1. L \in Nat /\ DOMAIN u = 1 .. L
    BY PointsOf, Zenon
  <2>2. DOMAIN w = 1 .. Len(w)
    BY <1>1, PointsOf, Zenon
  <2> QED
    BY <1>1, <2>1, <2>2, Zenon
<1>3. Paired(w)
  <2> SUFFICES ASSUME NEW i \in 0 .. L + 1 PROVE HighAt(w, i) <=> LowAt(w, i + 1)
    BY <1>1, Zenon DEF Paired
  <2>1. CASE i \in 0 .. L
    <3>1. HighAt(u, i) <=> LowAt(u, i + 1)
      BY <2>1, Zenon DEF Paired
    <3>2. HighAt(w, i) <=> HighAt(u, i)
      <4>1. (i \in 1 .. L + 1 <=> i \in 1 .. L)
        BY <1>2, <2>1
      <4> QED
        BY <1>1, <1>2, <4>1, Zenon DEF HighAt
    <3>3. LowAt(w, i + 1) <=> LowAt(u, i + 1)
      <4>1. i + 1 \in 1 .. L + 1 /\ (i + 1 \in 1 .. L \/ i + 1 = L + 1)
        BY <1>2, <2>1
      <4>2. CASE i + 1 \in 1 .. L
        BY <1>1, <1>2, <4>1, <4>2, Zenon DEF LowAt
      <4>3. CASE i + 1 = L + 1
        <5>1. L + 1 \notin 1 .. L
          BY <1>2
        <5> QED
          BY <1>1, <1>2, <4>3, <5>1, Zenon DEF LowAt
      <4> QED
        BY <4>1, <4>2, <4>3, Zenon
    <3> QED
      BY <3>1, <3>2, <3>3, Zenon
  <2>2. CASE i = L + 1
    <3>1. L + 1 + 1 \notin 1 .. L + 1
      BY <1>2
    <3>2. ~LowAt(w, i + 1)
      BY <1>2, <2>2, <3>1, Zenon DEF LowAt
    <3>3. ~HighAt(w, i)
      BY <1>1, <2>2, Zenon DEF HighAt
    <3> QED
      BY <3>2, <3>3, Zenon
  <2>3. i \in 0 .. L \/ i = L + 1
    BY <1>2
  <2> QED
    BY <2>1, <2>2, <2>3, Zenon
<1>4. Encoded(w) = Encoded(u) \o Utf8(x)
  <2>1. Len(w) >= Len(u)
    BY <1>1, <1>2
  <2>2. PICK f \in [0 .. Len(w) -> Seq(Nat)] :
           /\ f[Len(u)] = Encoded(u) /\ Encoded(w) = f[Len(w)]
           /\ \A n \in 1 .. Len(w) : f[n] = f[n - 1] \o Encode(w, n)
    BY <1>1, <1>3, <2>1, EncodedFrom, Zenon
  <2>3. L + 1 \in 1 .. L + 1 /\ (L + 1) - 1 = L
    BY <1>2
  <2>4. f[L + 1] = f[L] \o Encode(w, L + 1)
    <3>1. f[L + 1] = f[(L + 1) - 1] \o Encode(w, L + 1)
      BY <1>1, <2>2, <2>3, Zenon
    <3> QED
      BY <2>3, <3>1, Zenon
  <2>5. Encode(w, L + 1) = Utf8(x)
    <3> HIDE DEF L
    <3> QED
      BY <1>1, SMT DEF Encode
  <2> QED
    BY <1>1, <2>2, <2>4, <2>5, Zenon
<1> QED
  BY <1>1, <1>3, <1>4, Zenon DEF w

\* The point that the halves of a pair name.
PointOf(h, l) == 65536 + (h - 55296) * 1024 + l - 56320

\* One more pair.
LEMMA EncodedTwo ==
  ASSUME NEW u \in Seq(Nat), Paired(u), NEW h \in High, NEW l \in Low
  PROVE  LET w == u \o <<h, l>>
         IN  /\ w \in Seq(Nat) /\ Len(w) = Len(u) + 2
             /\ \A i \in 1 .. Len(u) : w[i] = u[i]
             /\ Paired(w) /\ Encoded(w) = Encoded(u) \o Utf8(PointOf(h, l))
<1> DEFINE w == u \o <<h, l>>
           L == Len(u)
<1>0. h \in Nat /\ l \in Nat /\ h \notin Low /\ l \notin High
  BY HighNotLow, LowNotHigh, Zenon
<1>1. /\ w \in Seq(Nat) /\ Len(w) = L + 2 /\ w[L + 1] = h /\ w[L + 2] = l
      /\ \A i \in 1 .. L : w[i] = u[i]
  <2> DEFINE t == <<h, l>>
  <2>1. t \in Seq(Nat) /\ Len(t) = 2 /\ t[1] = h /\ t[2] = l /\ 1 \in 1 .. 2 /\ 2 \in 1 .. 2
    BY <1>0
  <2> HIDE DEF t
  <2>2. /\ u \o t \in Seq(Nat) /\ Len(u \o t) = Len(u) + Len(t)
        /\ \A i \in 1 .. Len(u) : (u \o t)[i] = u[i]
        /\ \A i \in 1 .. Len(t) : (u \o t)[Len(u) + i] = t[i]
    <3>1. t \in Seq(Nat)
      BY <2>1
    <3> QED
      BY <3>1, ConcatPoints
  <2>3. (u \o t)[Len(u) + 1] = t[1] /\ (u \o t)[Len(u) + 2] = t[2]
    BY <2>1, <2>2, Zenon
  <2> QED
    BY <2>1, <2>2, <2>3, Zenon DEF t
<1> HIDE DEF w
<1>2. L \in Nat /\ DOMAIN u = 1 .. L /\ DOMAIN w = 1 .. L + 2
  <2>1. L \in Nat /\ DOMAIN u = 1 .. L
    BY PointsOf, Zenon
  <2>2. DOMAIN w = 1 .. Len(w)
    BY <1>1, PointsOf, Zenon
  <2> QED
    BY <1>1, <2>1, <2>2, Zenon
<1>3. Paired(w)
  <2> SUFFICES ASSUME NEW i \in 0 .. L + 2 PROVE HighAt(w, i) <=> LowAt(w, i + 1)
    BY <1>1, Zenon DEF Paired
  <2>1. CASE i \in 0 .. L
    <3>1. HighAt(u, i) <=> LowAt(u, i + 1)
      BY <2>1, Zenon DEF Paired
    <3>2. HighAt(w, i) <=> HighAt(u, i)
      <4>1. (i \in 1 .. L + 2 <=> i \in 1 .. L)
        BY <1>2, <2>1
      <4> QED
        BY <1>1, <1>2, <4>1, Zenon DEF HighAt
    <3>3. LowAt(w, i + 1) <=> LowAt(u, i + 1)
      <4>1. i + 1 \in 1 .. L + 2 /\ (i + 1 \in 1 .. L \/ i + 1 = L + 1)
        BY <1>2, <2>1
      <4>2. CASE i + 1 \in 1 .. L
        BY <1>1, <1>2, <4>1, <4>2, Zenon DEF LowAt
      <4>3. CASE i + 1 = L + 1
        <5>1. L + 1 \notin 1 .. L
          BY <1>2
        <5> QED
          BY <1>0, <1>1, <1>2, <4>3, <5>1, Zenon DEF LowAt
      <4> QED
        BY <4>1, <4>2, <4>3, Zenon
    <3> QED
      BY <3>1, <3>2, <3>3, Zenon
  <2>2. CASE i = L + 1
    <3>1. L + 1 \in 1 .. L + 2 /\ L + 2 \in 1 .. L + 2 /\ i + 1 = L + 2
      BY <1>2, <2>2
    <3> QED
      BY <1>1, <1>2, <2>2, <3>1, Zenon DEF HighAt, LowAt
  <2>3. CASE i = L + 2
    <3>1. L + 2 + 1 \notin 1 .. L + 2
      BY <1>2
    <3>2. ~LowAt(w, i + 1)
      BY <1>2, <2>3, <3>1, Zenon DEF LowAt
    <3>3. ~HighAt(w, i)
      BY <1>0, <1>1, <2>3, Zenon DEF HighAt
    <3> QED
      BY <3>2, <3>3, Zenon
  <2>4. i \in 0 .. L \/ i = L + 1 \/ i = L + 2
    BY <1>2
  <2> QED
    BY <2>1, <2>2, <2>3, <2>4, Zenon
<1>4. Encoded(w) = Encoded(u) \o Utf8(PointOf(h, l))
  <2>1. Len(w) >= Len(u)
    BY <1>1, <1>2
  <2>2. PICK f \in [0 .. Len(w) -> Seq(Nat)] :
           /\ f[Len(u)] = Encoded(u) /\ Encoded(w) = f[Len(w)]
           /\ \A n \in 1 .. Len(w) : f[n] = f[n - 1] \o Encode(w, n)
    BY <1>1, <1>3, <2>1, EncodedFrom, Zenon
  <2>3. /\ L + 1 \in 1 .. L + 2 /\ (L + 1) - 1 = L
        /\ L + 2 \in 1 .. L + 2 /\ (L + 2) - 1 = L + 1 /\ L \in 0 .. L + 2
    BY <1>2
  <2>4. f[L + 1] = f[L] \o Encode(w, L + 1)
    <3>1. f[L + 1] = f[(L + 1) - 1] \o Encode(w, L + 1)
      BY <1>1, <2>2, <2>3, Zenon
    <3> QED
      BY <2>3, <3>1, Zenon
  <2>5. f[L + 2] = f[L + 1] \o Encode(w, L + 2)
    <3>1. f[L + 2] = f[(L + 2) - 1] \o Encode(w, L + 2)
      BY <1>1, <2>2, <2>3, Zenon
    <3> QED
      BY <2>3, <3>1, Zenon
  <2>6. Encode(w, L + 1) = << >>
    <3> HIDE DEF L
    <3> QED
      BY <1>1, SMT DEF Encode
  <2>7. Encode(w, L + 2) = Utf8(PointOf(h, l))
    <3>1. w[(L + 2) - 1] = h
      BY <1>1, <2>3, Zenon
    <3>2. Encode(w, L + 2) = Utf8(65536 + (w[(L + 2) - 1] - 55296) * 1024 + w[L + 2] - 56320)
      <4> HIDE DEF L
      <4> QED
        BY <1>0, <1>1, SMT DEF Encode
    <3> QED
      BY <1>1, <3>1, <3>2, SMT DEF PointOf
  <2>8. f[L] \o << >> = f[L]
    <3>1. f[L] \in Seq(Nat)
      BY <1>1, <2>2, <2>3, Zenon
    <3> QED
      BY <3>1, ConcatEmptySeq
  <2> QED
    BY <1>1, <2>2, <2>4, <2>5, <2>6, <2>7, <2>8, Zenon
<1> QED
  BY <1>1, <1>3, <1>4, Zenon DEF w

\* The units of a code point say what its bytes say.
LEMMA UnitsEncoded ==
  ASSUME NEW u \in Seq(Nat), Paired(u), NEW cp, Scalar(cp)
  PROVE  LET w == u \o Units(cp)
         IN  /\ w \in Seq(Nat) /\ Len(w) = Len(u) + (IF Wide(cp) THEN 2 ELSE 1)
             /\ \A i \in 1 .. Len(u) : w[i] = u[i]
             /\ Paired(w) /\ Encoded(w) = Encoded(u) \o Utf8(cp)
             /\ ~Wide(cp) => w[Len(u) + 1] = cp
<1>1. CASE Wide(cp)
  <2> DEFINE high == 55296 + (cp - 65536) \div 1024
             low == 56320 + ((cp - 65536) % 1024)
  <2>1. /\ Units(cp) = <<high, low>> /\ high \in High /\ low \in Low /\ PointOf(high, low) = cp
    BY <1>1, PairIs, SMT DEF Scalar, Wide, PointOf
  <2> HIDE DEF high, low
  <2> DEFINE w == u \o <<high, low>>
  <2>2. /\ w \in Seq(Nat) /\ Len(w) = Len(u) + 2
        /\ \A i \in 1 .. Len(u) : w[i] = u[i]
        /\ Paired(w) /\ Encoded(w) = Encoded(u) \o Utf8(PointOf(high, low))
    BY <2>1, EncodedTwo, Zenon
  <2>3. w = u \o Units(cp)
    BY <2>1, Zenon
  <2> HIDE DEF w
  <2> QED
    BY <1>1, <2>1, <2>2, <2>3, Zenon
<1>2. CASE ~Wide(cp)
  <2>1. Units(cp) = <<cp>> /\ cp \in Nat /\ cp \notin High /\ cp \notin Low
    BY <1>2, SingleIs, SMT DEF Scalar, Wide
  <2> DEFINE w == u \o <<cp>>
  <2>2. /\ w \in Seq(Nat) /\ Len(w) = Len(u) + 1 /\ w[Len(u) + 1] = cp
        /\ \A i \in 1 .. Len(u) : w[i] = u[i]
        /\ Paired(w) /\ Encoded(w) = Encoded(u) \o Utf8(cp)
    BY <2>1, EncodedOne, Zenon
  <2>3. w = u \o Units(cp)
    BY <2>1, Zenon
  <2> HIDE DEF w
  <2> QED
    BY <1>2, <2>2, <2>3, Zenon
<1> QED
  BY <1>1, <1>2, Zenon

-----------------------------------------------------------------------------
(* Command lines: the loop over the bytes.                                 *)

Decodes(b) == [at : 1 .. Len(b) + 1, units : Seq(Nat)]

LEMMA ReplacementIs ==
  /\ Scalar(Replacement) /\ ~Wide(Replacement) /\ Utf8(Replacement) = <<239, 191, 189>>
  /\ Replacement \in Nat
BY SMTT(60) DEF Scalar, Surrogate, Wide, Utf8, Replacement

\* The code makes code points only, and goes on.
LEMMA CodeScalar ==
  ASSUME NEW b \in Seq(Byte), NEW i \in 1 .. Len(b)
  PROVE  Scalar(CodeAt(b, i).cp) /\ CodeAt(b, i).next \in i + 1 .. Len(b) + 1
<1>1. ASSUME NEW n \in 0 .. 3, Rightly(b, i, n)
      PROVE  Scalar(CodeAt(b, i).cp) /\ CodeAt(b, i).next \in i + 1 .. Len(b) + 1
  <2>1. /\ Scalar(CodeAt(b, i).cp) /\ CodeAt(b, i).next = i + n + 1 /\ Sequence(b, i, n)
    BY <1>1, Zenon DEF Rightly
  <2>2. i + n <= Len(b) /\ Len(b) \in Nat
    BY <2>1, SequenceParts, PointsOf, Zenon
  <2>3. i + n + 1 \in i + 1 .. Len(b) + 1
    BY <2>2
  <2> QED
    BY <2>1, <2>3, Zenon
<1>2. ASSUME NotRead(b, i)
      PROVE  Scalar(CodeAt(b, i).cp) /\ CodeAt(b, i).next \in i + 1 .. Len(b) + 1
  BY <1>2, ReplacementIs, Zenon DEF NotRead
<1> QED
  BY <1>1, <1>2, CodeIs, Zenon

LEMMA UnitsType ==
  ASSUME NEW cp, Scalar(cp)
  PROVE  Units(cp) \in Seq(Nat)
<1>1. CASE Wide(cp)
  <2> DEFINE high == 55296 + (cp - 65536) \div 1024
             low == 56320 + ((cp - 65536) % 1024)
  <2>1. Units(cp) = <<high, low>> /\ high \in High /\ low \in Low
    BY <1>1, PairIs, SMT DEF Scalar, Wide
  <2> HIDE DEF high, low
  <2>2. high \in Nat /\ low \in Nat
    BY <2>1, HighNotLow, LowNotHigh
  <2> QED
    BY <2>1, <2>2
<1>2. CASE ~Wide(cp)
  <2>1. Units(cp) = <<cp>> /\ cp \in Nat
    BY <1>2, SingleIs, SMT DEF Scalar, Wide
  <2> QED
    BY <2>1
<1> QED
  BY <1>1, <1>2, Zenon

\* A pass of the loop.
LEMMA DecodeIs ==
  ASSUME NEW b \in Seq(Byte), NEW c \in Decodes(b)
  PROVE  /\ Decode(c, b) \in Decodes(b)
         /\ c.at > Len(b) => Decode(c, b) = c
         /\ c.at <= Len(b) =>
              /\ c.at \in 1 .. Len(b) /\ Decode(c, b).at = CodeAt(b, c.at).next
              /\ Decode(c, b).units = c.units \o Units(CodeAt(b, c.at).cp)
<1>1. Len(b) \in Nat /\ c.at \in 1 .. Len(b) + 1 /\ c.units \in Seq(Nat)
  BY PointsOf DEF Decodes
<1>2. CASE c.at > Len(b)
  <2>1. Decode(c, b) = c
    BY <1>2, Zenon DEF Decode
  <2>2. ~(c.at <= Len(b))
    BY <1>1, <1>2
  <2> QED
    BY <1>2, <2>1, <2>2, Zenon
<1>3. CASE c.at <= Len(b)
  <2>1. c.at \in 1 .. Len(b) /\ ~(c.at > Len(b))
    BY <1>1, <1>3
  <2> DEFINE code == CodeAt(b, c.at)
             next == code.next
             units == c.units \o Units(code.cp)
  <2>2. Scalar(code.cp) /\ next \in c.at + 1 .. Len(b) + 1
    BY <2>1, CodeScalar, Zenon
  <2>3. units \in Seq(Nat)
    BY <1>1, <2>2, UnitsType, JoinBytes, Zenon
  <2>4. next \in 1 .. Len(b) + 1
    <3> HIDE DEF next
    <3> QED
      BY <1>1, <2>2
  <2>5. Decode(c, b) = [at |-> next, units |-> units]
    BY <2>1, Zenon DEF Decode
  <2> HIDE DEF next, units
  <2>6. Decode(c, b) \in Decodes(b) /\ Decode(c, b).at = next /\ Decode(c, b).units = units
    BY <2>3, <2>4, <2>5 DEF Decodes
  <2> QED
    BY <2>1, <2>6, Zenon DEF next, units
<1>4. c.at > Len(b) \/ c.at <= Len(b)
  BY <1>1
<1> QED
  BY <1>2, <1>3, <1>4, Zenon

\* The loop over the bytes.
LEMMA Utf16Is ==
  ASSUME NEW b \in Seq(Byte)
  PROVE  \E f \in [0 .. Len(b) -> Decodes(b)] :
           /\ f[0] = [at |-> 1, units |-> << >>] /\ Utf8ToUtf16(b) = f[Len(b)].units
           /\ \A n \in 1 .. Len(b) : f[n] = Decode(f[n - 1], b)
<1> DEFINE N == Len(b)
           S == Decodes(b)
           start == [at |-> 1, units |-> << >>]
           step == [q \in (1 .. N) \X S |-> Decode(q[2], b)]
           Eqn(f) == f = [n \in 0 .. N |-> IF n = 0 THEN start ELSE Decode(f[n - 1], b)]
           after == CHOOSE f : Eqn(f)
<1>0. N \in Nat
  BY PointsOf
<1>1. start \in S
  <2>1. 1 \in 1 .. Len(b) + 1
    BY <1>0
  <2> QED
    BY <2>1, EmptySeq DEF Decodes
<1>2. \A n \in 1 .. N, v \in S : Decode(v, b) \in S
  BY DecodeIs
<1> HIDE DEF S, start
<1>3. step \in [(1 .. N) \X S -> S]
  <2>1. \A q \in (1 .. N) \X S : Decode(q[2], b) \in S
    BY <1>2
  <2> QED
    BY <2>1
<1>4. PICK g : IteratesIn(g, N, S, start, step)
  <2> HIDE DEF step, N
  <2>1. \E f : IteratesIn(f, N, S, start, step)
    BY <1>0, <1>1, <1>3, IterationIn
  <2> QED
    BY <2>1
<1>5. \A n \in 1 .. N : g[n] = Decode(g[n - 1], b)
  <2> TAKE n \in 1 .. N
  <2>1. n - 1 \in 0 .. N
    BY <1>0
  <2>2. <<n, g[n - 1]>> \in (1 .. N) \X S
    BY <1>4, <2>1, SMTT(60) DEF IteratesIn
  <2> QED
    BY <1>4, <2>2 DEF IteratesIn
<1>6. Eqn(g)
  <2>1. \A n \in 0 .. N : n # 0 => n \in 1 .. N
    BY <1>0
  <2>2. \A n \in 0 .. N : g[n] = IF n = 0 THEN start ELSE Decode(g[n - 1], b)
    <3> HIDE DEF N, step
    <3> QED
      BY <1>4, <1>5, <2>1 DEF IteratesIn
  <2> QED
    BY <1>4, <2>2 DEF IteratesIn
<1>7. Eqn(after)
  <2> HIDE DEF Eqn
  <2> QED
    BY <1>6
<1>8. Utf8ToUtf16(b) = after[N].units
  BY DEF Utf8ToUtf16, start
<1>9. /\ after[0] = start
      /\ \A n \in 1 .. N : after[n] = Decode(after[n - 1], b)
  <2>1. 0 \in 0 .. N /\ \A n \in 1 .. N : n \in 0 .. N /\ n # 0
    BY <1>0
  <2> HIDE DEF after, N
  <2> QED
    BY <1>7, <2>1
<1>10. \A n \in 0 .. N : after[n] \in S
  <2> DEFINE X == [n \in 0 .. N |-> S]
  <2>1. /\ 0 \in 0 .. N /\ \A n \in 1 .. N : n \in 0 .. N /\ n - 1 \in 0 .. N
    <3> HIDE DEF N, S, start, step, after
    <3> QED
      BY <1>0, PassesOf, ZenonT(60)
  <2>2. after[0] \in X[0]
    <3> HIDE DEF N, S, start, step, after
    <3> QED
      BY <1>1, <1>9, <2>1, SMTT(60)
  <2> HIDE DEF after
  <2>3. ASSUME NEW n \in 1 .. N, after[n - 1] \in X[n - 1] PROVE after[n] \in X[n]
    BY <1>2, <1>9, <2>1, <2>3
  <2>4. \A n \in 0 .. N : after[n] \in X[n]
    <3> HIDE DEF X, N
    <3> QED
      BY <1>0, <2>2, <2>3, Induct
  <2> QED
    BY <2>4
<1>11. after \in [0 .. N -> S]
  <2> HIDE DEF S, N
  <2>1. after = [n \in 0 .. N |-> after[n]]
    <3> HIDE DEF after
    <3> QED
      BY <1>7
  <2> HIDE DEF after
  <2> QED
    BY <1>10, <2>1
<1> HIDE DEF after
<1> QED
  BY <1>8, <1>9, <1>11 DEF S, start

Mark == Utf8(Replacement)

\* So far every byte was in a sequence, or one was not and shows.
AllRead(b, at, u) == Tiled(b, at) /\ Encoded(u) = SubSeq(b, 1, at - 1)
Shows(b, u, p, rest) ==
  /\ \A n \in 0 .. 3 : ~Sequence(b, p, n)
  /\ Tiled(b, p) /\ Encoded(u) = SubSeq(b, 1, p - 1) \o Mark \o rest
  /\ \E m \in 1 .. Len(u) : u[m] = Replacement
NotAllRead(b, u) == \E p \in 1 .. Len(b), rest \in Seq(Nat) : Shows(b, u, p, rest)
ReadSoFar(b, n, c) ==
  /\ c.at > n \/ c.at = Len(b) + 1
  /\ Paired(c.units) /\ Len(c.units) <= c.at - 1
  /\ AllRead(b, c.at, c.units) \/ NotAllRead(b, c.units)

LEMMA CutBytes ==
  ASSUME NEW b \in Seq(Byte), NEW m \in 1 .. Len(b) + 1, NEW n \in 0 .. Len(b)
  PROVE  SubSeq(b, m, n) \in Seq(Nat)
<1>1. Len(b) \in Nat /\ \A j \in 1 .. Len(b) : b[j] \in Byte
  BY PointsOf
<1>2. m \in Int /\ n \in Int /\ \A j \in m .. n : j \in 1 .. Len(b)
  BY <1>1
<1>3. \A j \in m .. n : b[j] \in Nat
  <2>1. \A x \in Byte : x \in Nat
    BY DEF Byte
  <2> QED
    BY <1>1, <1>2, <2>1, Zenon
<1> QED
  BY <1>2, <1>3, SubSeqProperties

LEMMA Associate ==
  ASSUME NEW S
  PROVE  \A s, t, v \in Seq(S) : (s \o t) \o v = s \o (t \o v)
BY ConcatAssociative, SMTT(60)

LEMMA BytesAssociate ==
  \A s, t, v \in Seq(Nat) : (s \o t) \o v = s \o (t \o v)
<1> DEFINE S == Nat
<1> HIDE DEF S
<1>1. \A s, t, v \in Seq(S) : (s \o t) \o v = s \o (t \o v)
  BY Associate, SMTT(60)
<1> QED
  BY <1>1 DEF S

LEMMA MarkIs == Mark \in Seq(Nat) /\ Mark = <<239, 191, 189>>
BY ReplacementIs, Utf8Type, SMT DEF Mark

\* What was not read goes on showing.
LEMMA ShowsOn ==
  ASSUME NEW b \in Seq(Byte), NEW u \in Seq(Nat), Paired(u), NEW cp, Scalar(cp), NotAllRead(b, u)
  PROVE  NotAllRead(b, u \o Units(cp))
<1> DEFINE w == u \o Units(cp)
<1>1. /\ w \in Seq(Nat) /\ Len(w) = Len(u) + (IF Wide(cp) THEN 2 ELSE 1)
      /\ \A i \in 1 .. Len(u) : w[i] = u[i]
      /\ Encoded(w) = Encoded(u) \o Utf8(cp)
  BY UnitsEncoded, Zenon
<1> HIDE DEF w
<1>2. PICK p \in 1 .. Len(b), rest \in Seq(Nat) : Shows(b, u, p, rest)
  BY Zenon DEF NotAllRead
<1>3. PICK m \in 1 .. Len(u) : u[m] = Replacement
  BY <1>2, Zenon DEF Shows
<1>4. Len(b) \in Nat /\ Len(u) \in Nat
  BY PointsOf
<1>5. m \in 1 .. Len(w) /\ w[m] = Replacement
  <2>1. Len(w) >= Len(u)
    BY <1>1, <1>4, SMTT(60)
  <2>2. w[m] = u[m]
    BY <1>1
  <2> QED
    BY <1>3, <1>4, <2>1, <2>2
<1>6. Utf8(cp) \in Seq(Nat)
  <2>1. cp \in Nat
    BY DEF Scalar
  <2> QED
    BY <2>1, Utf8Type
<1>7. Encoded(w) = SubSeq(b, 1, p - 1) \o Mark \o (rest \o Utf8(cp))
  <2> DEFINE s == SubSeq(b, 1, p - 1) \o Mark
  <2>1. SubSeq(b, 1, p - 1) \in Seq(Nat)
    <3>1. 1 \in 1 .. Len(b) + 1 /\ p - 1 \in 0 .. Len(b)
      BY <1>4
    <3> QED
      BY <3>1, CutBytes
  <2>2. s \in Seq(Nat)
    BY <2>1, MarkIs, JoinBytes
  <2>3. Encoded(u) = s \o rest
    BY <1>2, Zenon DEF Shows
  <2> HIDE DEF s
  <2>4. (s \o rest) \o Utf8(cp) = s \o (rest \o Utf8(cp))
    BY <1>6, <2>2, BytesAssociate, Zenon
  <2>5. Encoded(w) = s \o (rest \o Utf8(cp))
    BY <1>1, <2>3, <2>4, Zenon
  <2> QED
    BY <2>5, Zenon DEF s
<1>8. rest \o Utf8(cp) \in Seq(Nat)
  BY <1>6, JoinBytes
<1>9. Shows(b, w, p, rest \o Utf8(cp))
  BY <1>2, <1>5, <1>7, Zenon DEF Shows
<1>10. NotAllRead(b, w)
  BY <1>8, <1>9, Zenon DEF NotAllRead
<1> QED
  BY <1>10, Zenon DEF w

\* A byte that begins no sequence begins to show.
LEMMA ShowsFirst ==
  ASSUME NEW b \in Seq(Byte), NEW at \in 1 .. Len(b), NEW u \in Seq(Nat), Paired(u), AllRead(b, at, u),
         \A n \in 0 .. 3 : ~Sequence(b, at, n)
  PROVE  NotAllRead(b, u \o Units(Replacement))
<1> DEFINE w == u \o Units(Replacement)
<1>1. /\ w \in Seq(Nat) /\ Len(w) = Len(u) + 1 /\ w[Len(u) + 1] = Replacement
      /\ Encoded(w) = Encoded(u) \o Mark
  BY ReplacementIs, UnitsEncoded, Zenon DEF Mark
<1> HIDE DEF w
<1>2. Len(b) \in Nat /\ Len(u) \in Nat
  BY PointsOf
<1>3. Len(u) + 1 \in 1 .. Len(w)
  BY <1>1, <1>2
<1>4. SubSeq(b, 1, at - 1) \in Seq(Nat)
  <2>1. 1 \in 1 .. Len(b) + 1 /\ at - 1 \in 0 .. Len(b)
    BY <1>2
  <2> QED
    BY <2>1, CutBytes
<1> DEFINE s == SubSeq(b, 1, at - 1) \o Mark
<1>5. s \in Seq(Nat) /\ s \o << >> = s /\ << >> \in Seq(Nat)
  BY <1>4, MarkIs, JoinBytes, ConcatEmptySeq, EmptySeq
<1>6. Encoded(w) = s
  BY <1>1, Zenon DEF AllRead
<1>7. Encoded(w) = SubSeq(b, 1, at - 1) \o Mark \o << >>
  BY <1>5, <1>6, Zenon
<1>8. Shows(b, w, at, << >>)
  BY <1>1, <1>3, <1>7, Zenon DEF Shows, AllRead
<1>9. NotAllRead(b, w)
  BY <1>5, <1>8, Zenon DEF NotAllRead
<1> QED
  BY <1>9, Zenon DEF w

\* A sequence is read.
LEMMA ReadOn ==
  ASSUME NEW b \in Seq(Byte), NEW at \in 1 .. Len(b), NEW u \in Seq(Nat), Paired(u), AllRead(b, at, u),
         NEW n \in 0 .. 3, Rightly(b, at, n)
  PROVE  AllRead(b, at + n + 1, u \o Units(CodeAt(b, at).cp))
<1> DEFINE cp == CodeAt(b, at).cp
           w == u \o Units(cp)
<1>1. Scalar(cp) /\ Utf8(cp) = SubSeq(b, at, at + n) /\ Sequence(b, at, n)
  BY Zenon DEF Rightly
<1> HIDE DEF cp
<1>2. Encoded(w) = Encoded(u) \o Utf8(cp)
  BY <1>1, UnitsEncoded, Zenon
<1> HIDE DEF w
<1>3. Len(b) \in Nat /\ at + n <= Len(b)
  BY <1>1, SequenceParts, PointsOf, Zenon
<1>4. Tiled(b, at + n + 1)
  <2>1. at \in Nat \ {0} /\ Tiled(b, at)
    BY <1>3 DEF AllRead
  <2> QED
    BY <1>1, <2>1, TiledNext
<1>5. SubSeq(b, 1, at - 1) \o SubSeq(b, at, at + n) = SubSeq(b, 1, (at + n + 1) - 1)
  <2> DEFINE k == at - 1
             e == at + n
  <2>1. 0 \in Nat /\ k \in Nat /\ e \in Nat /\ 0 <= k /\ k <= e /\ e <= Len(b)
    BY <1>3
  <2>2. 0 + 1 = 1 /\ k + 1 = at /\ (at + n + 1) - 1 = e
    BY <1>3
  <2> HIDE DEF k, e
  <2>3. SubSeq(b, 0 + 1, k) \o SubSeq(b, k + 1, e) = SubSeq(b, 0 + 1, e)
    BY <2>1, CutJoin
  <2>4. SubSeq(b, 1, k) \o SubSeq(b, at, e) = SubSeq(b, 1, e)
    BY <2>2, <2>3, Zenon
  <2> QED
    BY <2>2, <2>4, Zenon DEF k, e
<1>6. AllRead(b, at + n + 1, w)
  BY <1>1, <1>2, <1>4, <1>5, Zenon DEF AllRead
<1> QED
  BY <1>6, Zenon DEF w, cp

\* A pass keeps to one or the other.
LEMMA ReadStep ==
  ASSUME NEW b \in Seq(Byte), NEW n \in 1 .. Len(b), NEW c \in Decodes(b), ReadSoFar(b, n - 1, c)
  PROVE  ReadSoFar(b, n, Decode(c, b))
<1> DEFINE N == Len(b)
           d == Decode(c, b)
           code == CodeAt(b, c.at)
<1>1. /\ N \in Nat /\ c.at \in 1 .. N + 1 /\ c.units \in Seq(Nat) /\ Len(c.units) \in Nat
  BY PointsOf DEF Decodes
<1>2. /\ c.at > n - 1 \/ c.at = N + 1
      /\ Paired(c.units) /\ Len(c.units) <= c.at - 1
      /\ AllRead(b, c.at, c.units) \/ NotAllRead(b, c.units)
  BY Zenon DEF ReadSoFar
<1>3. CASE c.at > N
  <2>1. d = c
    BY <1>3, DecodeIs, Zenon
  <2>2. c.at = N + 1
    BY <1>1, <1>3, SMTT(60)
  <2> QED
    BY <1>2, <2>1, <2>2, Zenon DEF ReadSoFar
<1>4. CASE c.at <= N
  <2>1. c.at \in 1 .. N /\ d.at = code.next /\ d.units = c.units \o Units(code.cp)
    BY <1>4, DecodeIs, Zenon
  <2>2. Scalar(code.cp) /\ code.next \in c.at + 1 .. N + 1
    BY <2>1, CodeScalar, Zenon
  <2>3. /\ Paired(c.units \o Units(code.cp))
        /\ Len(c.units \o Units(code.cp)) = Len(c.units) + (IF Wide(code.cp) THEN 2 ELSE 1)
    BY <1>1, <1>2, <2>2, UnitsEncoded, Zenon
  <2>4. (\E m \in 0 .. 3 : Rightly(b, c.at, m)) \/ NotRead(b, c.at)
    BY <2>1, CodeIs, Zenon
  <2>5. Len(d.units) <= d.at - 1
    <3>1. ASSUME NEW m \in 0 .. 3, Rightly(b, c.at, m) PROVE Len(d.units) <= d.at - 1
      <4>1. code.next = c.at + m + 1 /\ (Wide(code.cp) => m = 3)
        BY <3>1, Zenon DEF Rightly
      <4> DEFINE more == IF Wide(code.cp) THEN 2 ELSE 1
      <4>2. more \in Nat /\ more <= m + 1
        BY <4>1
      <4>3. Len(d.units) = Len(c.units) + more /\ d.at = c.at + m + 1
        BY <2>1, <2>3, <4>1, Zenon
      <4> HIDE DEF d, more
      <4> QED
        BY <1>1, <1>2, <4>2, <4>3, SMTT(60)
    <3>2. ASSUME NotRead(b, c.at) PROVE Len(d.units) <= d.at - 1
      <4>1. code.cp = Replacement /\ ~Wide(code.cp)
        BY <3>2, ReplacementIs, Zenon DEF NotRead
      <4> HIDE DEF d, code
      <4> QED
        BY <1>1, <1>2, <2>1, <2>2, <2>3, <4>1, SMTT(60)
    <3> QED
      BY <2>4, <3>1, <3>2, Zenon
  <2>6. d.at > n
    <3> HIDE DEF d, code
    <3> QED
      BY <1>1, <1>2, <1>4, <2>1, <2>2, SMTT(60)
  <2>7. AllRead(b, d.at, d.units) \/ NotAllRead(b, d.units)
    <3>1. CASE NotAllRead(b, c.units)
      <4>1. NotAllRead(b, c.units \o Units(code.cp))
        BY <1>1, <1>2, <2>2, <3>1, ShowsOn, Zenon
      <4> QED
        BY <2>1, <4>1, Zenon
    <3>2. ASSUME AllRead(b, c.at, c.units), NEW m \in 0 .. 3, Rightly(b, c.at, m)
          PROVE  AllRead(b, d.at, d.units)
      <4>1. AllRead(b, c.at + m + 1, c.units \o Units(code.cp))
        BY <1>1, <1>2, <2>1, <3>2, ReadOn, Zenon
      <4>2. code.next = c.at + m + 1
        BY <3>2, Zenon DEF Rightly
      <4> QED
        BY <2>1, <4>1, <4>2, Zenon
    <3>3. ASSUME AllRead(b, c.at, c.units), NotRead(b, c.at) PROVE NotAllRead(b, d.units)
      <4>1. code.cp = Replacement /\ \A m \in 0 .. 3 : ~Sequence(b, c.at, m)
        BY <3>3, Zenon DEF NotRead
      <4>2. NotAllRead(b, c.units \o Units(Replacement))
        BY <1>1, <1>2, <2>1, <3>3, <4>1, ShowsFirst, Zenon
      <4> QED
        BY <2>1, <4>1, <4>2, Zenon
    <3> QED
      BY <1>2, <2>4, <3>1, <3>2, <3>3, Zenon
  <2>8. Paired(d.units)
    BY <2>1, <2>3, Zenon
  <2> QED
    BY <2>5, <2>6, <2>7, <2>8, Zenon DEF ReadSoFar
<1>5. c.at > N \/ c.at <= N
  BY <1>1
<1> QED
  BY <1>3, <1>4, <1>5, Zenon

LEMMA EncodedNone == Encoded(<< >>) = << >> /\ Paired(<< >>)
<1>1. << >> \in Seq(Nat) /\ Len(<< >>) = 0 /\ DOMAIN << >> = {}
  BY EmptySeq
<1>2. Paired(<< >>)
  BY <1>1, Zenon DEF Paired, HighAt, LowAt
<1>3. PICK f \in [0 .. Len(<< >>) -> Seq(Nat)] :
        /\ f[0] = << >> /\ Encoded(<< >>) = f[Len(<< >>)]
        /\ \A n \in 1 .. Len(<< >>) : f[n] = f[n - 1] \o Encode(<< >>, n)
  BY <1>1, <1>2, EncodedIs, Zenon
<1> QED
  BY <1>1, <1>2, <1>3, Zenon

\* What the loop over the bytes leaves.
LEMMA Utf16Read ==
  ASSUME NEW b \in Seq(Byte)
  PROVE  LET u == Utf8ToUtf16(b)
         IN  /\ u \in Seq(Nat) /\ Paired(u) /\ Len(u) <= Len(b)
             /\ AllRead(b, Len(b) + 1, u) \/ NotAllRead(b, u)
<1> DEFINE N == Len(b)
           u == Utf8ToUtf16(b)
<1>1. N \in Nat
  BY PointsOf
<1>2. PICK f \in [0 .. N -> Decodes(b)] :
        /\ f[0] = [at |-> 1, units |-> << >>] /\ u = f[N].units
        /\ \A n \in 1 .. N : f[n] = Decode(f[n - 1], b)
  BY Utf16Is, Zenon
<1> HIDE DEF u
<1> DEFINE X == [n \in 0 .. N |-> {c \in Decodes(b) : ReadSoFar(b, n, c)}]
<1>3. 0 \in 0 .. N /\ N \in 0 .. N /\ \A n \in 1 .. N : n \in 0 .. N /\ n - 1 \in 0 .. N
  BY <1>1
<1>4. \A n \in 0 .. N : X[n] = {c \in Decodes(b) : ReadSoFar(b, n, c)}
  OBVIOUS
<1> HIDE DEF X
<1>5. f[0] \in X[0]
  <2>1. f[0].at = 1 /\ f[0].units = << >>
    BY <1>2
  <2>2. Len(<< >>) = 0
    OBVIOUS
  <2>3. SubSeq(b, 1, 1 - 1) = << >>
    BY SubSeqEmpty
  <2>4. AllRead(b, 1, << >>)
    BY <2>3, TiledFirst, EncodedNone, Zenon DEF AllRead
  <2>5. ReadSoFar(b, 0, f[0])
    <3>1. 1 > 0 /\ 0 <= 1 - 1
      OBVIOUS
    <3> QED
      BY <2>1, <2>2, <2>4, <3>1, EncodedNone, Zenon DEF ReadSoFar
  <2> QED
    BY <1>2, <1>3, <1>4, <2>5, Zenon
<1>6. ASSUME NEW n \in 1 .. N, f[n - 1] \in X[n - 1] PROVE f[n] \in X[n]
  <2>1. f[n - 1] \in Decodes(b) /\ ReadSoFar(b, n - 1, f[n - 1])
    BY <1>3, <1>4, <1>6, Zenon
  <2>2. ReadSoFar(b, n, Decode(f[n - 1], b))
    BY <2>1, ReadStep, Zenon
  <2>3. f[n] \in Decodes(b) /\ ReadSoFar(b, n, f[n])
    BY <1>2, <1>3, <2>2, Zenon
  <2> QED
    BY <1>3, <1>4, <2>3, Zenon
<1>7. \A n \in 0 .. N : f[n] \in X[n]
  BY <1>1, <1>5, <1>6, Induct
<1>8. f[N] \in Decodes(b) /\ ReadSoFar(b, N, f[N])
  BY <1>3, <1>4, <1>7, Zenon
<1>9. f[N].at \in 1 .. N + 1 /\ f[N].units \in Seq(Nat)
  BY <1>8 DEF Decodes
<1>10. /\ f[N].at > N \/ f[N].at = N + 1
       /\ Paired(u) /\ Len(u) <= f[N].at - 1
       /\ AllRead(b, f[N].at, u) \/ NotAllRead(b, u)
  BY <1>2, <1>8, Zenon DEF ReadSoFar
<1>11. f[N].at = N + 1
  BY <1>1, <1>9, <1>10
<1>12. Len(u) <= N
  BY <1>1, <1>10, <1>11
<1> QED
  BY <1>2, <1>9, <1>10, <1>11, <1>12, Zenon DEF u

\* If every byte was read, the text is the same.
LEMMA ReadWhole ==
  ASSUME NEW b \in Seq(Byte), NEW u, AllRead(b, Len(b) + 1, u)
  PROVE  Encoded(u) = b /\ WellFormed(b)
<1>1. Len(b) \in Nat /\ (Len(b) + 1) - 1 = Len(b)
  BY PointsOf
<1>2. SubSeq(b, 1, Len(b)) = b
  BY SubSeqFull
<1>3. Encoded(u) = SubSeq(b, 1, (Len(b) + 1) - 1) /\ Tiled(b, Len(b) + 1)
  BY Zenon DEF AllRead
<1>4. Encoded(u) = b
  BY <1>1, <1>2, <1>3, Zenon
<1> QED
  BY <1>3, <1>4, TiledAll, Zenon

\* What shows as the replacement would be one, were it there.
LEMMA MarkReads ==
  ASSUME NEW b \in Seq(Byte), NEW p \in 1 .. Len(b), NEW rest \in Seq(Nat),
         b = SubSeq(b, 1, p - 1) \o Mark \o rest
  PROVE  Sequence(b, p, 2)
<1>1. Len(b) \in Nat /\ p - 1 \in Nat /\ p - 1 <= Len(b)
  BY PointsOf
<1> DEFINE cut == SubSeq(b, 1, p - 1)
           s == cut \o Mark
<1>2. cut \in Seq(Nat) /\ Len(cut) = p - 1
  <2>1. 1 \in 1 .. Len(b) + 1 /\ p - 1 \in 0 .. Len(b)
    BY <1>1
  <2>2. cut \in Seq(Nat)
    BY <2>1, CutBytes
  <2>3. Len(SubSeq(b, 0 + 1, p - 1)) = IF 0 <= p - 1 THEN (p - 1) - 0 ELSE 0
    <3>1. 0 \in Nat
      OBVIOUS
    <3> QED
      BY <1>1, <3>1, CutPoints
  <2>4. Len(cut) = p - 1
    <3>1. 0 + 1 = 1 /\ 0 <= p - 1 /\ (p - 1) - 0 = p - 1
      BY <1>1
    <3> QED
      BY <2>3, <3>1
  <2> QED
    BY <2>2, <2>4
<1>3. Mark \in Seq(Nat) /\ Len(Mark) = 3 /\ Mark[1] = 239 /\ Mark[2] = 191 /\ Mark[3] = 189
  BY MarkIs
<1> HIDE DEF cut
<1>4. /\ s \in Seq(Nat) /\ Len(s) = Len(cut) + Len(Mark)
      /\ \A i \in 1 .. Len(Mark) : s[Len(cut) + i] = Mark[i]
  <2>1. cut \in Seq(Nat) /\ Mark \in Seq(Nat)
    BY <1>2, <1>3
  <2> QED
    BY <2>1, ConcatPoints
<1> HIDE DEF s
<1>5. /\ Len(s \o rest) = Len(s) + Len(rest)
      /\ \A i \in 1 .. Len(s) : (s \o rest)[i] = s[i]
  <2>1. s \in Seq(Nat)
    BY <1>4
  <2> QED
    BY <2>1, ConcatPoints
<1>6. b = s \o rest
  BY Zenon DEF s, cut
<1>7. Len(rest) \in Nat
  BY PointsOf
<1>8. Len(s) = p + 2 /\ p + 2 <= Len(b) /\ \A i \in 1 .. Len(s) : b[i] = s[i]
  <2>1. Len(s) = p + 2
    BY <1>1, <1>2, <1>3, <1>4
  <2>2. Len(b) = Len(s) + Len(rest) /\ \A i \in 1 .. Len(s) : b[i] = s[i]
    BY <1>5, <1>6, Zenon
  <2> QED
    BY <1>7, <2>1, <2>2
<1>9. b[p] = 239 /\ b[p + 1] = 191 /\ b[p + 2] = 189
  <2>1. (p - 1) + 1 = p /\ (p - 1) + 2 = p + 1 /\ (p - 1) + 3 = p + 2
    BY <1>1
  <2>2. 1 \in 1 .. 3 /\ 2 \in 1 .. 3 /\ 3 \in 1 .. 3
    OBVIOUS
  <2>3. s[(p - 1) + 1] = Mark[1] /\ s[(p - 1) + 2] = Mark[2] /\ s[(p - 1) + 3] = Mark[3]
    BY <1>2, <1>3, <1>4, <2>2
  <2>4. s[p] = 239 /\ s[p + 1] = 191 /\ s[p + 2] = 189
    BY <1>3, <2>1, <2>3
  <2>5. p \in 1 .. Len(s) /\ p + 1 \in 1 .. Len(s) /\ p + 2 \in 1 .. Len(s)
    BY <1>8
  <2> QED
    BY <1>8, <2>4, <2>5, SMTT(60)
<1>10. Lead3(b[p], b[p + 1]) /\ Later(b[p + 1]) /\ Later(b[p + 2])
  BY <1>9, SMT DEF Lead3, Later
<1> QED
  BY <1>8, <1>10, Sequence2, Zenon

\* If not, it is another, which holds the replacement.
LEMMA NotReadWhole ==
  ASSUME NEW b \in Seq(Byte), NEW u \in Seq(Nat), NotAllRead(b, u)
  PROVE  Encoded(u) # b /\ ~WellFormed(b) /\ Replacement \in Range(u)
<1>1. PICK p \in 1 .. Len(b), rest \in Seq(Nat) : Shows(b, u, p, rest)
  BY Zenon DEF NotAllRead
<1>2. /\ \A n \in 0 .. 3 : ~Sequence(b, p, n)
      /\ Tiled(b, p) /\ Encoded(u) = SubSeq(b, 1, p - 1) \o Mark \o rest
      /\ \E m \in 1 .. Len(u) : u[m] = Replacement
  BY <1>1, Zenon DEF Shows
<1>3. ~WellFormed(b)
  BY <1>2, TiledGap, Zenon
<1>4. Encoded(u) # b
  <2>1. 2 \in 0 .. 3
    OBVIOUS
  <2> QED
    BY <1>2, <2>1, MarkReads, Zenon
<1>5. DOMAIN u = 1 .. Len(u)
  BY PointsOf
<1>6. Replacement \in Range(u)
  BY <1>2, <1>5, Zenon DEF Range
<1> QED
  BY <1>3, <1>4, <1>6

\* Any bytes.
LEMMA Utf16Arrives ==
  ASSUME NEW X, text \in Seq(X)
  PROVE  Utf16IsTheText
<1> SUFFICES ASSUME Over(DOMAIN ByteOf)
             PROVE  LET b == [i \in DOMAIN text |-> ByteOf[text[i]]]
                        u == Utf8ToUtf16(b)
                        high(i) == i \in DOMAIN u /\ u[i] \in High
                        low(i) == i \in DOMAIN u /\ u[i] \in Low
                    IN /\ Len(u) <= Len(b)
                       /\ \A i \in 0 .. Len(u) : high(i) <=> low(i + 1)
                       /\ Encoded(u) = b <=> WellFormed(b)
                       /\ WellFormed(b) \/ Replacement \in Range(u)
  BY Zenon DEF Utf16IsTheText
<1> DEFINE b == [i \in DOMAIN text |-> ByteOf[text[i]]]
           u == Utf8ToUtf16(b)
<1>1. b \in Seq(Byte)
  <2>1. Len(text) \in Nat /\ DOMAIN text = 1 .. Len(text)
    BY PointsOf
  <2>2. \A x \in DOMAIN ByteOf : ByteOf[x] \in Byte
    <3>1. DOMAIN ByteOf = {"x41", "x80", "x90", "xA0", "xC0", "xC3",
                           "xE0", "xED", "xEF", "xF0", "xF4"}
      BY SMT DEF ByteOf
    <3>2. /\ ByteOf["x41"] \in Byte /\ ByteOf["x80"] \in Byte /\ ByteOf["x90"] \in Byte
          /\ ByteOf["xA0"] \in Byte /\ ByteOf["xC0"] \in Byte /\ ByteOf["xC3"] \in Byte
          /\ ByteOf["xE0"] \in Byte /\ ByteOf["xED"] \in Byte /\ ByteOf["xEF"] \in Byte
          /\ ByteOf["xF0"] \in Byte /\ ByteOf["xF4"] \in Byte
      BY SMT DEF ByteOf, Byte
    <3> QED
      BY <3>1, <3>2
  <2>3. b \in [1 .. Len(text) -> Byte]
    BY <2>1, <2>2 DEF Over
  <2> HIDE DEF b
  <2> QED
    BY <2>1, <2>3
<1> HIDE DEF b
<1>2. /\ u \in Seq(Nat) /\ Paired(u) /\ Len(u) <= Len(b)
      /\ AllRead(b, Len(b) + 1, u) \/ NotAllRead(b, u)
  BY <1>1, Utf16Read, Zenon
<1> HIDE DEF u
<1>3. \A i \in 0 .. Len(u) : i \in DOMAIN u /\ u[i] \in High <=> i + 1 \in DOMAIN u /\ u[i + 1] \in Low
  BY <1>2, Zenon DEF Paired, HighAt, LowAt
<1>4. /\ Encoded(u) = b <=> WellFormed(b)
      /\ WellFormed(b) \/ Replacement \in Range(u)
  <2>1. CASE AllRead(b, Len(b) + 1, u)
    BY <1>1, <2>1, ReadWhole, Zenon
  <2>2. CASE NotAllRead(b, u)
    BY <1>1, <1>2, <2>2, NotReadWhole, Zenon
  <2> QED
    BY <1>2, <2>1, <2>2, Zenon
<1> QED
  BY <1>2, <1>3, <1>4, Zenon DEF u, b

\* Every text of bytes or arguments is told as it is, over any alphabets and of
\* any length.
THEOREM CommandTrue == TextSpec => []CommandIsTold
<1>1. TextIn => CommandIsTold
  BY TextArrives, Utf16Arrives DEF TextIn, CommandIsTold
<1> QED
  BY <1>1, TextType, PTL
=============================================================================
