--------------------------- MODULE DialoguePolicy ---------------------------
(***************************************************************************)
(* services/dialogue_policy: the pure decision what one inbound message    *)
(* is.  The router turns a text into signals, the engine turns the signals *)
(* and the state of the user's session into a route.  A text is abstracted *)
(* to what the decision looks at: its words, its normalized length, and    *)
(* whether it starts like a continuation or matches a crisis pattern.      *)
(***************************************************************************)
EXTENDS Naturals

MIN_TOKENS_FOR_DREAM == 8

Texts == [tokens : Nat, length : Nat, prefix : BOOLEAN, crisis : BOOLEAN]

InputTypes == {"TEXT", "SHORT_FRAGMENT", "LONG_TEXT", "CONTINUATION_SIGNAL"}
SessionStates == {"NEW", "ACTIVE", "IDLE", "CLOSED", "RESUMED"}
SessionActions == {"NONE", "START_NEW", "CONTINUE"}
Routes == {"ROUTE_NEW_DREAM", "ROUTE_DIALOGUE_TURN", "ROUTE_CLARIFICATION",
           "ROUTE_SAFETY", "ROUTE_NOOP"}

PolicyInput ==
    [text_length : Nat, token_count : Nat, input_type : InputTypes,
     session_state : SessionStates, is_empty : BOOLEAN, crisis_signal : BOOLEAN]

\* No pattern is looked for in an empty text.
is_crisis_signal(text) == text.tokens > 0 /\ text.crisis

classify_input_type(text) ==
    IF text.prefix THEN "CONTINUATION_SIGNAL"
    ELSE IF text.tokens <= 3 THEN "SHORT_FRAGMENT"
    ELSE IF text.tokens >= 6 \/ text.length >= 40 THEN "LONG_TEXT"
    ELSE "TEXT"

build_policy_input(text, state) ==
    [text_length   |-> text.length,
     token_count   |-> text.tokens,
     input_type    |-> classify_input_type(text),
     session_state |-> state,
     is_empty      |-> text.tokens = 0,
     crisis_signal |-> is_crisis_signal(text)]

Decision(route, action) == [route |-> route, session_action |-> action]

decide(input) ==
    LET short   == input.token_count < MIN_TOKENS_FOR_DREAM
        long    == input.input_type = "LONG_TEXT"
        ongoing == input.session_state \in {"ACTIVE", "RESUMED"}
    IN  IF input.crisis_signal
          THEN Decision("ROUTE_SAFETY", "NONE")
        ELSE IF input.is_empty \/ input.text_length <= 0
          THEN Decision("ROUTE_NOOP", "NONE")
        ELSE IF ~ongoing /\ input.input_type = "SHORT_FRAGMENT" /\ short
          THEN Decision("ROUTE_CLARIFICATION", "NONE")
        ELSE IF input.input_type = "CONTINUATION_SIGNAL"
          THEN Decision("ROUTE_DIALOGUE_TURN", "CONTINUE")
        ELSE IF input.session_state \in {"NEW", "CLOSED"} /\ long /\ ~short
          THEN Decision("ROUTE_NEW_DREAM", "START_NEW")
        ELSE IF ongoing /\ long /\ ~short
          THEN Decision("ROUTE_NEW_DREAM", "CONTINUE")
        ELSE IF ongoing
          THEN Decision("ROUTE_DIALOGUE_TURN", "CONTINUE")
        ELSE IF short
          THEN Decision("ROUTE_CLARIFICATION", "NONE")
        ELSE Decision("ROUTE_NEW_DREAM", "START_NEW")

\* The routes whose reply is a fixed text, and those that ask the model.
CannedRoutes == {"ROUTE_SAFETY", "ROUTE_CLARIFICATION"}
ModelRoutes == {"ROUTE_NEW_DREAM", "ROUTE_DIALOGUE_TURN"}
=============================================================================
