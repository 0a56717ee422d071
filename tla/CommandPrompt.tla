---------------------------- MODULE CommandPrompt ----------------------------
(* The command prompt (command_prompt.rs): a text, the suggestions of the     *)
(* last update, the highlighted row and the commands run before.  One step    *)
(* is one frame with at most one key; the messages of a frame are applied     *)
(* when it ends, the last one first.                                          *)
EXTENDS Commands

CONSTANTS Session, Texts, MaxRuns

VARIABLES
    visible,
    text,
    suggestions,
    selected,        \* from zero, as in the code
    newSelection,    \* <<>> or the selection of the next frame
    previous,        \* commands run before, the latest first
    ran              \* the messages of the commands, in order

vars == <<visible, text, suggestions, selected, newSelection, previous, ran>>

Blank == Query(<<>>, FALSE)

Min2(a, b) == IF a < b THEN a ELSE b

Init ==
    /\ visible = FALSE
    /\ text = Blank
    /\ suggestions = <<>>
    /\ selected = 0
    /\ newSelection = <<>>
    /\ previous = <<>>
    /\ ran = <<>>

IsEmpty(query) == query = Blank

Recent == IF IsEmpty(text) THEN Reverse(SubSeq(previous, 1, Min2(3, Len(previous))))
          ELSE <<>>

(* The rows below the text. *)
Rows == Recent \o suggestions

FirstRow(query, n) == IF IsEmpty(query) THEN Min2(n, 3) ELSE 0

(* CommandPromptUpdate with the suggestions for a text. *)
Update(query) ==
    /\ \E out \in {Expand(Session, query)} : suggestions' = out.options
    /\ selected' = FirstRow(text', Len(previous'))
    /\ newSelection' = <<FirstRow(text', Len(previous'))>>

(* A frame highlights the selected row and then applies the new selection. *)
Applied == IF newSelection # <<>> THEN newSelection[1] ELSE selected

-----------------------------------------------------------------------------

(* ShowCommandPrompt: the text is set in the first frame of the prompt. *)
Show ==
    /\ ~visible
    /\ visible' = TRUE
    /\ text' = Blank
    /\ UNCHANGED <<suggestions, selected, newSelection, previous, ran>>

(* A frame in which nothing is typed. *)
Frame ==
    /\ visible
    /\ UNCHANGED <<visible, text, previous, ran>>
    /\ IF suggestions = <<>> THEN Update(text)
       ELSE /\ selected' = Applied
            /\ newSelection' = <<>>
            /\ UNCHANGED suggestions

(* A typed n or p also asks for another row (key_pressed), but its message is *)
(* applied before that of the new text, which sets the selection again.       *)
Type ==
    /\ visible
    /\ text' \in Texts \ {text}
    /\ UNCHANGED <<visible, previous, ran>>
    /\ Update(text')

(* HideCommandPrompt. *)
Hide ==
    /\ visible
    /\ visible' = FALSE
    /\ text' = Blank
    /\ suggestions' = <<>>
    /\ selected' = Len(previous)
    /\ newSelection' = <<>>
    /\ UNCHANGED <<previous, ran>>

(* The arrow up, or P with a modifier, which types nothing.                   *)
SelectPrev ==
    /\ visible
    /\ suggestions # <<>>
    /\ selected' = Applied
    /\ newSelection' = <<IF Applied > 0 THEN Applied - 1 ELSE 0>>
    /\ UNCHANGED <<visible, text, suggestions, previous, ran>>

(* The arrow down, or N with a modifier.  The limit counts the suggestions    *)
(* and not the recent commands above them.                                    *)
SelectNext ==
    /\ visible
    /\ suggestions # <<>>
    /\ selected' = Applied
    /\ newSelection' = <<Min2(Applied + 1, Len(suggestions) - 1)>>
    /\ UNCHANGED <<visible, text, suggestions, previous, ran>>

-----------------------------------------------------------------------------

AllButLast(words) == SubSeq(words, 1, Len(words) - 1)

(* The text with the highlighted row for its last word. *)
WithRow(row) == IF text.blank \/ text.words = <<>> THEN text.words \o row
                ELSE AllButLast(text.words) \o row

Mut_AppendSuggestion ==
    LET words == IF suggestions = <<>> \/ selected >= Len(suggestions)
                 THEN text.words ELSE WithRow(suggestions[selected + 1])
    IN  Expand(Session, Query(words, FALSE)).expanded

(* append_suggestion *)
AppendSuggestion ==
    LET words == IF suggestions = <<>> \/ selected >= Len(Rows) THEN text.words
                 ELSE WithRow(Rows[selected + 1])
    IN  Expand(Session, Query(words, FALSE)).expanded

Tab ==
    /\ visible
    /\ \E line \in {AppendSuggestion} :
          text' = Query(line.words,
                        \/ line.blank
                        \/ ParseCommand(Session, line.words).kind = "MissingParameters")
    /\ UNCHANGED <<visible, previous, ran>>
    /\ Update(text')

(* Runs the command of a line, or leaves the line for more parameters. *)
Run(line) ==
    \E result \in {ParseCommand(Session, line.words)} :
    IF result.kind = "Terminal"
    THEN /\ Len(ran) < MaxRuns
         /\ ran' = Append(ran, result)
         /\ previous' = <<line.words>> \o previous
         /\ visible' = FALSE
         /\ text' = Blank
         /\ suggestions' = <<>>
         /\ selected' = Len(previous')
         /\ newSelection' = <<FirstRow(text, Len(previous))>>
    ELSE /\ text' = Query(line.words, TRUE)
         /\ UNCHANGED <<visible, previous, ran>>
         /\ Update(text')

Enter ==
    /\ visible
    /\ \E line \in {AppendSuggestion} : Run(line)

Click(i) ==
    /\ visible
    /\ \E out \in {Expand(Session, Query(WithRow(Rows[i]), FALSE))} : Run(out.expanded)

Next ==
    \/ Show
    \/ Frame
    \/ Type
    \/ Hide
    \/ SelectPrev
    \/ SelectNext
    \/ Tab
    \/ Enter
    \/ \E i \in DOMAIN Rows : i <= 2 /\ Click(i)

Spec == Init /\ [][Next]_vars

-----------------------------------------------------------------------------

(* A suggestion, or a recent command, is the whole of what it replaces. *)
Chosen == WithRow(Rows[selected + 1])

(* The Enter key runs the highlighted row: when the line with that row is a   *)
(* command, the message that is sent is the one of that line and not of some  *)
(* other suggestion the expansion prefers.                                    *)
EnterRunsHighlighted ==
    [][Enter /\ suggestions # <<>> /\ selected < Len(Rows)
         /\ ParseCommand(Session, Chosen).kind = "Terminal"
       => ran' = Append(ran, ParseCommand(Session, Chosen))]_vars
=============================================================================
