------------------------------ MODULE MCInputs ------------------------------
(* What is typed, for TLC: the input line of every window (MCInputLine),   *)
(* the boxes that help to type, the decoder of the terminal.  They share   *)
(* no state: a behaviour is one of them (part), the others stay at their   *)
(* start.                                                                  *)
EXTENDS MCInputLine, SequencesExt

VARIABLES part, typing, presses, term

(* A text of two words, a word and an @, a command: the cursor at the end. *)
K == INSTANCE Typing WITH
    Texts <- {<<>>, <<"a", " ", "@">>, <<"/", "a">>, <<"i", "a", " ", "i", "a">>},
    Typed <- {"a", "i", "@", " "},
    Commands <- << <<"/", "a">>, <<"/", "a", "i">>, <<"/", "i">> >>,
    Names <- << <<"a", "i">>, <<"a", "a", "i">> >>,
    Members <- << <<"a", "i">>, <<"i">> >>,
    Fixes <- (<<"i", "a">> :> << <<"a", "i">>, <<"a">> >>) @@ (<<"i", "i">> :> << >>),
    Pasted <- <<"i">>, MaxKeys <- 4, e <- typing

(* Keys that are cut, wide, pasted, late answers; the terminal lent.       *)
I == INSTANCE Terminal WITH
    Scripts <- {<<"h", "esc", "up">>, <<"big", "wide">>, <<"paste", "notch">>, <<"codes", "altH">>,
                <<"osc", "altUp", "f1">>},
    Lent <- {<<"h", "up">>}, MaxPaste <- 6, Cap <- 1, t <- term

typingVars == <<typing, presses>>
inputVars == <<part, vars, typingVars, term>>

InputsInit ==
    /\ part \in {"line", "typing", "term"}
    /\ Init /\ K!TypingInit /\ I!TermInit
    /\ part # "line" => plan = LoginsPlan
    /\ part # "typing" => typing.buf = <<>>
    /\ part # "term" => term.script = <<"h", "up">> /\ term.speaks

LineGoes == part = "line" /\ Next /\ UNCHANGED <<part, typingVars, term>>
TypingGoes == part = "typing" /\ K!TypingNext /\ UNCHANGED <<part, vars, term>>
TermGoes == part = "term" /\ I!TermNext /\ UNCHANGED <<part, vars, typingVars>>

(* The user answers the login that is asked; the goroutine of the terminal *)
(* goes on, the owner of a lent terminal takes it, the bytes arrive.       *)
InputsFair ==
    /\ WF_vars(part = "line" /\ EnterAnswer)
    /\ WF_term(part = "term" /\ I!LoopGoes) /\ WF_term(part = "term" /\ I!HandDrains)
    /\ WF_term(part = "term" /\ I!Held) /\ WF_term(part = "term" /\ I!Arrives)

InputsSpec == InputsInit /\ [][LineGoes \/ TypingGoes \/ TermGoes]_inputVars /\ InputsFair

(* A login answer stays with its prompt, goes to its prompt, and prompts   *)
(* wait in order (auth.go, ui.go).                                         *)
AnswersRight == part = "line" => TypeOK /\ SecretsStay /\ AnswersTyped /\ PromptsInOrder

(* The input holds what was typed for its window, an edit is of its own    *)
(* message, and the spell box stands on the word it shows (editor.go,      *)
(* spellui.go).                                                            *)
TextRight ==
    /\ part = "line" => OwnText /\ EditsTyped
    /\ part = "typing" => K!FixFits

(* The keys the interface gets are what the user did, however the bytes    *)
(* are cut, and never while the terminal is lent (term/keys.go, term.go).  *)
KeysRight == part = "term" => I!KeysRight /\ I!HandOver

(* No change of window, prompt or mode loses a draft, and Tab takes away   *)
(* only what it put (ui.go, complete.go).                                  *)
TextKept ==
    /\ [][part = "line" => DraftsKept]_vars
    /\ [][part = "typing" => K!TabKeeps]_typingVars

(* A login that waits is shown or over, and the terminal asked for comes.  *)
InputEnds == PromptsShown /\ I!HandsEnd
=============================================================================
