------------------------------ MODULE Terminal ------------------------------
(***************************************************************************)
(* The terminal boundary of the TUI: who owns the tty, and what is on the  *)
(* screen.  src/src/runtime/tui_mode.c takes and gives back the tty (raw   *)
(* mode, alternate screen, bracketed paste, the redirection of stdout and  *)
(* stderr to the debug log) around the Lua loop, around Ctrl-Z and around  *)
(* an external editor; src/src/lua/vm.c draws, and keeps a cache of the    *)
(* last frame so that the next one only redraws the lines that changed.    *)
(*                                                                         *)
(* A screen is a function from physical rows to what they show.  Drawn     *)
(* lines are model values; whatever the shell, an editor or a stray        *)
(* message to stderr left in a row is Junk.                                *)
(***************************************************************************)
EXTENDS Integers, Sequences, FiniteSets

CONSTANTS Lines,      \* line texts a frame is made of
          Blank,      \* the empty line, and a cleared row
          Junk,       \* a row this program did not draw
          Height,     \* rows of the terminal
          MaxLines    \* lines of a frame, at most

ASSUME TerminalAssumption ==
  /\ Height \in Nat \ {0} /\ MaxLines \in 1 .. Height
  /\ Blank \notin Lines /\ Junk \notin Lines /\ Blank # Junk

Rows == 1 .. Height
Modes == {"alt", "mouse", "paste", "sync", "hidden"}
Texts == UNION {[1 .. n -> Lines \cup {Blank}] : n \in 1 .. MaxLines}
Cursors == [row : 1 .. MaxLines, visible : {TRUE}] \cup [row : {1}, visible : {FALSE}]
NoCursor == [row |-> 0, visible |-> FALSE]
Empty == [top |-> 1, lines |-> <<>>, cursor |-> NoCursor]
Lost == [top |-> 0, lines |-> <<>>, cursor |-> NoCursor]
Torn == [top |-> 1, lines |-> <<>>, cursor |-> NoCursor]

VARIABLES
  phase,      \* "start", "ready", "entered", "running", "stopped", "editing", "leaving",
              \* "ended": of its own accord, or killed while others had the terminal;
              \* "killed": while psi had it
  tty,        \* line discipline: "cooked" or "raw"
  modes,      \* the private modes that are on in the terminal
  out,        \* where fd 1 and 2 point: "tty", or "log" under the stdio guard
  hasOriginal, altFlag,   \* psi_tui_has_original_termios, psi_tui_alt_screen_active
  ui,         \* the Lua loop: "boot", "loop", "over"
  altPlan,    \* when Lua uses the alternate screen: "never", "picker", "always"
  screen, cursor,         \* physical rows; the cursor's row, 0 when no frame put it there
  cache,      \* psi_vm_tui_previous_{top,lines,cursor_*}; lines <<>> is NULL
  frameActive,            \* psi_vm_tui_frame_active
  frame,      \* history: the frame the last render promised; Lost after other output
  torn,       \* history: cached lines a failed render updated and did not draw
  disowned,   \* history: the last suspend or resume failed half way
  stuck       \* history: the tcsetattr of psi_tui_leave_terminal failed

owner == <<phase, tty, modes, out, hasOriginal, altFlag, ui, altPlan, disowned, stuck>>
picture == <<screen, cursor, cache, frameActive, frame, torn>>
vars == <<owner, picture>>

TypeOK ==
  /\ phase \in {"start", "ready", "entered", "running", "stopped", "editing", "leaving", "ended",
               "killed"}
  /\ tty \in {"cooked", "raw"} /\ modes \in SUBSET Modes /\ out \in {"tty", "log"}
  /\ hasOriginal \in BOOLEAN /\ altFlag \in BOOLEAN /\ disowned \in BOOLEAN
  /\ stuck \in BOOLEAN
  /\ ui \in {"boot", "loop", "over"} /\ altPlan \in {"never", "picker", "always"}
  /\ screen \in [Rows -> Lines \cup {Blank, Junk}] /\ cursor \in 0 .. Height
  /\ cache.lines \in Texts \cup {<<>>} /\ cache.top \in Rows
  /\ frameActive \in BOOLEAN /\ torn \in SUBSET (1 .. MaxLines)

Init ==
  /\ phase = "start" /\ tty = "cooked" /\ modes = {} /\ out = "tty"
  /\ hasOriginal = FALSE /\ altFlag = FALSE /\ disowned = FALSE /\ stuck = FALSE
  /\ ui = "boot" /\ altPlan \in {"never", "picker", "always"}
  /\ screen = [r \in Rows |-> Junk] /\ cursor = 0
  /\ cache = Empty /\ frameActive = FALSE /\ frame = Lost /\ torn = {}

-----------------------------------------------------------------------------
(* What the escape sequences do.                                           *)

EnterAlt(m) == (m \cup {"alt", "mouse", "paste"}) \ {"hidden"}   \* PSI_TUI_ENTER_SEQ
LeaveAlt(m) == m \ {"alt", "mouse", "paste", "sync", "hidden"}   \* PSI_TUI_LEAVE_SEQ
LeaveInline(m) == m \ {"paste", "sync", "hidden"}                \* PSI_TUI_LEAVE_INLINE_SEQ
\* Mutant: the leave sequence is chosen without a look at the flag.
Leave_Inline(m) == LeaveInline(m)
Leave(m) == IF altFlag THEN LeaveAlt(m) ELSE LeaveInline(m)

\* psi_tui_leave_terminal, which does not look at whether tcsetattr could put
\* the saved termios back.  Those who call it forget them, so nobody tries again.
LeaveTerminal(restored) ==
  /\ modes' = Leave(modes) /\ altFlag' = FALSE
  /\ tty' = IF hasOriginal /\ restored THEN "cooked" ELSE tty
  /\ stuck' = (hasOriginal /\ ~restored) /\ hasOriginal' = FALSE

\* Rows nobody vouches for any more: the shell's, the editor's.
Scribbled == /\ screen' = [r \in Rows |-> Junk] /\ frame' = Lost
             /\ cursor' = 0 /\ UNCHANGED frameActive

-----------------------------------------------------------------------------
(* psi_run_tui_mode.                                                       *)

\* Two ttys, a VM and the atexit handler come first; without one of them psi
\* returns before it has touched the terminal.
Begin(ok) ==
  /\ phase = "start" /\ phase' = IF ok THEN "ready" ELSE "leaving"
  /\ UNCHANGED <<tty, modes, out, hasOriginal, altFlag, ui, altPlan, disowned, stuck, picture>>

\* psi_tui_enter_terminal.  tcsetattr may fail after the attributes were saved.
EnterTerminal ==
  /\ phase = "ready"
  /\ \E saved, raw \in BOOLEAN :
       /\ raw => saved
       /\ hasOriginal' = saved
       /\ tty' = IF raw THEN "raw" ELSE tty
       /\ modes' = IF raw THEN modes \cup {"paste"} ELSE modes
       /\ phase' = IF raw THEN "entered" ELSE "leaving"
  /\ UNCHANGED <<out, altFlag, ui, altPlan, disowned, stuck, picture>>

\* dup of the terminal and psi_tui_stdio_guard_begin, which tries the debug log
\* and then /dev/null and puts both descriptors back when a dup fails; without
\* it psi_run_tui_mode undoes the rest.
TakeStdio(ok) ==
  /\ phase = "entered"
  /\ IF ok
     THEN /\ out' = "log" /\ phase' = "running"
          /\ UNCHANGED <<tty, modes, hasOriginal, altFlag, stuck>>
     ELSE /\ \E restored \in BOOLEAN : LeaveTerminal(restored)
          /\ phase' = "leaving"
          /\ UNCHANGED out
  /\ UNCHANGED <<ui, altPlan, disowned, picture>>

\* The Lua mode has returned.
LeaveTui ==
  /\ phase = "running" /\ ui = "over"
  /\ out' = "tty" /\ phase' = "leaving"
  /\ \E restored \in BOOLEAN : LeaveTerminal(restored)
  /\ UNCHANGED <<ui, altPlan, disowned, picture>>

\* psi_tui_atexit_restore: after main returns, or on exit() from anywhere in Lua.
AtExit ==
  /\ phase \in {"running", "leaving"}
  /\ out' = "tty" /\ phase' = "ended"
  /\ IF hasOriginal
     THEN \E restored \in BOOLEAN : LeaveTerminal(restored)
     ELSE UNCHANGED <<tty, modes, hasOriginal, altFlag, stuck>>
  /\ UNCHANGED <<ui, altPlan, disowned, picture>>

-----------------------------------------------------------------------------
(* Suspending: Ctrl-Z, and the external editor.                            *)

\* psi_tui_suspend_terminal.  The redirection goes first, the termios last.
SuspendTerminal(to, ok) ==
  /\ phase = "running"
  /\ out' = "tty" /\ modes' = Leave(modes)
  /\ tty' = IF ok THEN "cooked" ELSE tty
  /\ phase' = IF ok THEN to ELSE "running"
  /\ disowned' = ~ok
  /\ Scribbled
  /\ UNCHANGED <<hasOriginal, altFlag, ui, altPlan, stuck, cache, torn>>

\* psi_tui_resume_terminal: raw mode, then the modes, then the redirection.
ResumeTerminal(raw, guarded) ==
  /\ guarded => raw
  /\ phase' = "running"
  /\ tty' = IF raw THEN "raw" ELSE tty
  /\ modes' = IF ~raw THEN modes
              ELSE IF altFlag THEN EnterAlt(modes) ELSE modes \cup {"paste"}
  /\ out' = IF guarded THEN "log" ELSE out
  /\ disowned' = ~guarded
  /\ UNCHANGED <<hasOriginal, altFlag, ui, altPlan, stuck>>
  /\ UNCHANGED <<screen, cursor, frameActive, frame>>

\* psi_vm_tui_suspend stops the process with SIGTSTP and goes on after SIGCONT.
CtrlZ(ok) == SuspendTerminal("stopped", ok)
Continued(raw, guarded) ==
  /\ phase = "stopped" /\ ResumeTerminal(raw, guarded) /\ UNCHANGED <<cache, torn>>

\* lfn_tui_external_editor; an editor that came back also drops the cache.
OpenEditor(ok) == SuspendTerminal("editing", ok)
EditorReturns(raw, guarded) ==
  /\ phase = "editing" /\ ResumeTerminal(raw, guarded)
  /\ IF guarded THEN cache' = Empty /\ torn' = {} ELSE UNCHANGED <<cache, torn>>

\* SIGKILL, SIGTERM, SIGHUP or a crash.  psi handles none of them and restores
\* the terminal through atexit alone: what it had done to it stays done.
Killed ==
  /\ phase \notin {"ended", "killed"}
  /\ phase' = IF phase \in {"stopped", "editing"} THEN "ended" ELSE "killed"
  /\ UNCHANGED <<tty, modes, out, hasOriginal, altFlag, ui, altPlan, disowned, stuck>>
  /\ UNCHANGED picture

-----------------------------------------------------------------------------
(* The Lua loop of tui_runtime.lua, as far as it concerns the terminal.    *)

\* Mutant: the C side is not told that the alternate screen was left.
SetAltScreen_FlagKept(on) ==
  /\ modes' = IF on THEN EnterAlt(modes) ELSE LeaveAlt(modes)
  /\ altFlag' = TRUE
  /\ screen' = [r \in Rows |-> IF on THEN Blank ELSE Junk]
  /\ cursor' = 0 /\ frame' = Lost

\* chat.set_alt_screen: the sequence, then the flag on the C side.
SetAltScreen(on) ==
  /\ modes' = IF on THEN EnterAlt(modes) ELSE LeaveAlt(modes)
  /\ altFlag' = on
  /\ screen' = [r \in Rows |-> IF on THEN Blank ELSE Junk]
  /\ cursor' = 0 /\ frame' = Lost

KeepScreen == UNCHANGED <<modes, altFlag, screen, cursor, frame>>

\* The pickers run in a temporary alternate screen; bootstrap may fail.
OpenPicker ==
  /\ phase = "running" /\ ui = "boot" /\ altPlan # "never" /\ ~altFlag
  /\ SetAltScreen(TRUE)
  /\ UNCHANGED <<phase, tty, out, hasOriginal, ui, altPlan, disowned, stuck>>
  /\ UNCHANGED <<cache, frameActive, torn>>

Bootstrapped(ok) ==
  /\ phase = "running" /\ ui = "boot" /\ altFlag = (altPlan # "never")
  /\ ui' = IF ok THEN "loop" ELSE "over"
  /\ IF altPlan = "picker" \/ (altPlan = "always" /\ ~ok) THEN SetAltScreen(FALSE)
     ELSE KeepScreen
  /\ UNCHANGED <<phase, tty, out, hasOriginal, altPlan, disowned, stuck>>
  /\ UNCHANGED <<cache, frameActive, torn>>

LoopEnds ==
  /\ phase = "running" /\ ui = "loop" /\ ui' = "over"
  /\ IF altPlan = "always" THEN SetAltScreen(FALSE) ELSE KeepScreen
  /\ UNCHANGED <<phase, tty, out, hasOriginal, altPlan, disowned, stuck>>
  /\ UNCHANGED <<cache, frameActive, torn>>

-----------------------------------------------------------------------------
(* Drawing.                                                                *)

Drawing == phase = "running" /\ ui # "over"
OnlyPicture(ms) ==
  /\ modes' = ms
  /\ UNCHANGED <<phase, tty, out, hasOriginal, altFlag, ui, altPlan, disowned, stuck>>

\* A frame of n lines from row top on, put over what the screen shows.
Clamp(row, n) == IF row > n THEN n ELSE row
Reused(lines) == cache.lines # <<>> /\ Len(cache.lines) = Len(lines)
Changed(lines) == {i \in DOMAIN lines : cache.lines[i] # lines[i]}
\* Mutant: a moved viewport does not invalidate the cached rows.
FullRedraw_TopIgnored(lines, top, force) == force \/ ~Reused(lines)
FullRedraw(lines, top, force) == force \/ ~Reused(lines) \/ cache.top # top
OldViewport == {cache.top + i - 1 : i \in DOMAIN cache.lines}
ToClear(lines, top, force) ==
  IF FullRedraw(lines, top, force)
       /\ (cache.top # top \/ Len(cache.lines) # Len(lines))
  THEN OldViewport ELSE {}
ToDraw(lines, top, force) ==
  IF FullRedraw(lines, top, force) THEN DOMAIN lines ELSE Changed(lines)

Painted(lines, top, draw, clear) ==
  [r \in Rows |-> IF r - top + 1 \in draw THEN lines[r - top + 1]
                  ELSE IF r \in clear THEN Blank ELSE screen[r]]

\* lfn_tui_render_lines.  Lua forces a full redraw after anything else wrote
\* to the screen (reanchor_renderer), unless the cache is gone.
RenderLines(lines, cur, force, top) ==
  LET draw == ToDraw(lines, top, force)
      clear == ToClear(lines, top, force)
      at == [cur EXCEPT !.row = Clamp(cur.row, Len(lines))]
      output == \/ FullRedraw(lines, top, force)
                \/ cache.cursor # at
                \/ draw # {}
  IN /\ Drawing /\ ui = "loop" /\ top + Len(lines) - 1 <= Height
     /\ force \/ frame # Lost \/ cache.lines = <<>>
     /\ screen' = Painted(lines, top, draw, clear)
     /\ cursor' = IF output /\ at.visible THEN top + at.row - 1 ELSE cursor
     /\ OnlyPicture(IF ~output THEN modes
                    ELSE (modes \ {"sync", "hidden"})
                           \cup (IF at.visible THEN {} ELSE {"hidden"}))
     /\ cache' = [top |-> top, lines |-> lines, cursor |-> at]
     /\ frame' = cache'
     /\ torn' = IF FullRedraw(lines, top, force) THEN {} ELSE torn \ draw
     /\ frameActive' = FALSE

\* Out of memory while the changed lines of a reused cache are copied: the
\* lines before the one that failed stay in the cache, and nothing is drawn.
RenderRunsOut(lines, top) ==
  /\ Drawing /\ ui = "loop" /\ top + Len(lines) - 1 <= Height
  /\ frame # Lost /\ Reused(lines)
  /\ \E i \in Changed(lines) :
       /\ cache' = [cache EXCEPT !.lines =
                      [j \in DOMAIN lines |-> IF j < i THEN lines[j] ELSE cache.lines[j]]]
       /\ torn' = torn \cup {j \in Changed(lines) : j < i}
  /\ frame' = Torn
  /\ OnlyPicture(modes) /\ UNCHANGED <<screen, cursor, frameActive>>

\* Output that goes past the cache: lfn_tui_draw_raw_line, lfn_tui_write and
\* lfn_tui_render_frame (which also ends a synchronized update; the renderers
\* end theirs before they start a frame).
DrawRaw(row) ==
  /\ Drawing
  /\ screen' = [screen EXCEPT ![row] = Junk] /\ cursor' = 0 /\ frame' = Lost
  /\ OnlyPicture(modes) /\ UNCHANGED <<cache, frameActive, torn>>

Write == Drawing /\ Scribbled /\ OnlyPicture(modes) /\ UNCHANGED <<cache, torn>>

RenderFrame(visible) ==
  /\ Drawing /\ ~frameActive
  /\ Scribbled
  /\ OnlyPicture(IF visible THEN modes \ {"sync", "hidden"}
                 ELSE (modes \ {"sync"}) \cup {"hidden"})
  /\ UNCHANGED <<cache, torn>>

\* lfn_tui_clear(true): the cache and the physical screen together.
Clear ==
  /\ Drawing
  /\ screen' = [r \in Rows |-> Blank] /\ cache' = Empty /\ torn' = {} /\ frame' = Lost
  /\ cursor' = 0 /\ OnlyPicture(modes) /\ UNCHANGED frameActive

\* lfn_tui_set_cursor: a hidden cursor opens a synchronized update, once.
SetCursor(visible) ==
  /\ Drawing
  /\ frameActive' = (frameActive \/ ~visible)
  /\ OnlyPicture(IF visible THEN modes \ {"hidden"}
                 ELSE modes \cup {"hidden"}
                        \cup (IF frameActive THEN {} ELSE {"sync"}))
  /\ cursor' = 0 /\ frame' = Lost
  /\ UNCHANGED <<screen, cache, torn>>

\* Mutant: the update is taken for ended and its end is not written.
Refresh_FlagOnly ==
  /\ Drawing /\ frameActive /\ frameActive' = FALSE
  /\ OnlyPicture(modes)
  /\ UNCHANGED <<screen, cursor, cache, frame, torn>>

Refresh ==
  /\ Drawing /\ frameActive /\ frameActive' = FALSE
  /\ OnlyPicture(modes \ {"sync"})
  /\ UNCHANGED <<screen, cursor, cache, frame, torn>>

\* A tick or progress handler that fails where no notice can take it:
\* psi_vm_invoke_registry_callback0/2 print to stderr.
HandlerFails(row) ==
  /\ Drawing
  /\ screen' = IF out = "tty" THEN [screen EXCEPT ![row] = Junk] ELSE screen
  /\ OnlyPicture(modes) /\ UNCHANGED <<cursor, cache, frameActive, frame, torn>>

Next ==
  \/ EnterTerminal
  \/ \E ok \in BOOLEAN : Begin(ok) \/ TakeStdio(ok) \/ Bootstrapped(ok)
  \/ LeaveTui \/ AtExit \/ Write \/ Killed \/ OpenPicker \/ LoopEnds \/ Clear \/ Refresh
  \/ \E ok \in BOOLEAN : CtrlZ(ok) \/ OpenEditor(ok)
  \/ \E raw, guarded \in BOOLEAN : Continued(raw, guarded) \/ EditorReturns(raw, guarded)
  \/ \E lines \in Texts, top \in Rows :
       \/ \E cur \in Cursors, force \in BOOLEAN : RenderLines(lines, cur, force, top)
       \/ RenderRunsOut(lines, top)
  \/ \E row \in Rows : DrawRaw(row) \/ HandlerFails(row)
  \/ \E visible \in BOOLEAN : SetCursor(visible) \/ RenderFrame(visible)

Spec == Init /\ [][Next]_vars

-----------------------------------------------------------------------------
(* Properties.                                                             *)

\* Whenever something other than psi has the terminal - the shell while the
\* process is stopped, the editor, the shell after psi returned or exited from
\* anywhere - it is cooked, no private mode is left on, and stdout and stderr
\* are the terminal again (psi_tui_suspend_terminal, psi_tui_leave_terminal,
\* psi_tui_atexit_restore).  Two ways out are not covered, as the code does not
\* cover them: a kill or a crash while psi has the terminal ("killed"), and,
\* for the line discipline alone, a tcsetattr that fails when psi leaves.
OutsideIsRestored ==
  phase \in {"stopped", "editing", "ended"} =>
    /\ modes = {} /\ out = "tty"
    /\ tty = "cooked" \/ stuck

\* While the loop runs psi owns the terminal: raw, stray output diverted to
\* the log, the C flag in step with the alternate screen and the mouse, and
\* bracketed paste on, as psi_tui_enter_terminal wants it for the inline screen
\* too; only a suspend or resume that failed half way, which raises an error,
\* excuses it.  A picker's temporary alternate screen does turn the paste mode
\* off when it is left: after one ("picker") it is not asked for.
InsideIsOwned ==
  phase = "running" /\ ~disowned =>
    /\ tty = "raw" /\ out = "log"
    /\ ("alt" \in modes) = altFlag /\ ("mouse" \in modes) = altFlag
    /\ altPlan # "picker" /\ ui # "over" => "paste" \in modes

\* After render_lines the screen shows the frame that was asked for, line by
\* line and with its cursor, and no line of an earlier frame outside it,
\* whatever the cache skipped, wherever the viewport moved and whatever came
\* between.  A line that ran out of memory half way (torn) is excused.  And the
\* terminal never holds its output back (synchronized update) with nothing left
\* to release it: lfn_tui_refresh only ends an update that
\* psi_vm_tui_frame_active says is open.
FrameIsShown ==
  /\ "sync" \in modes => frameActive
  /\ phase = "running" /\ ~disowned /\ frame \notin {Lost, Torn} =>
    /\ \A i \in DOMAIN frame.lines \ torn : screen[frame.top + i - 1] = frame.lines[i]
    /\ \A r \in Rows : r - frame.top + 1 \notin DOMAIN frame.lines =>
         screen[r] \notin Lines
    /\ frame.cursor.visible = ("hidden" \notin modes)
    /\ frame.cursor.visible => cursor = frame.top + frame.cursor.row - 1

=============================================================================
