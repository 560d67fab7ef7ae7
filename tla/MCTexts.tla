------------------------------ MODULE MCTexts ------------------------------
EXTENDS TextLayout, FilePages, HostPaths, Keys, MessageTokens, CommandLines

MCAlphabets == {{"n", "w", "m", "s", "b", "t"}, {"n", "j", "r", "e", "s", "C"},
                {"k", "l", "j", "x", "w", "s"}, {"n", "s", "b", "U", "R", "O", "o"},
                {"n", "s", "u", "U", "P", "B", "Z"}, {"n", "/", ".", "~", "@"},
                {"esc", "[", "A", "200", "~", "pause", "gap"}, {"esc", "O", "A", "a", "1;5", "[", "pause"},
                {"esc", "a", "lead2", "lead3", "tail", "ctl", "gap", "pause"},
                {"empty", "short", "long", "oom", "clear"}, {"n", " ", ",", "/c", Slash, Quote},
                {"x41", "x80", "xA0", "xC0", "xC3", "xE0", "xED"}, {"x41", "x80", "x90", "xEF", "xF0", "xF4"}}
MCCwd == <<"/", "n">>
MCHomes == {<<>>, <<"/", "n", "n", "/">>, <<"/", "n", "n">>}
MCAsked == {-1, 1, 2, 3, 9}
=============================================================================
