------------------------------ MODULE Assistant ------------------------------
(***************************************************************************)
(* The assistant: the page web/app/dashboard/ai/page.tsx, the floating     *)
(* widget web/components/shared/ai-chat-widget.tsx and the route           *)
(* web/app/api/chat/route.ts they both ask.                                *)
(*                                                                         *)
(* The two chats keep their own state and never meet: a behaviour follows  *)
(* one of them (surface).  The providers behind the route are external.    *)
(***************************************************************************)
EXTENDS Naturals, Sequences

CONSTANTS
  MaxAsks   \* bound: questions asked in a behaviour

ASSUME ChatAssumption == MaxAsks \in Nat

VARIABLES
  surface,   \* which chat this is: the page or the widget
  keys,      \* the providers whose key is in the route's environment
  chat,      \* the hooks of the chat
  asks       \* its requests to /api/chat

chatVars == <<surface, keys, chat, asks>>

Models == {"gpt-4o-mini", "gpt-4o", "claude-sonnet", "gemini-flash"}
Providers == {"openai", "anthropic"}

\* A message: who wrote it, and the number of the question it asks or answers.
Messages == [role : {"user", "assistant"}, ask : 1 .. MaxAsks]

\* asked is how many questions were asked, cleared the last one asked before a Clear.
Chats == [messages : Seq(Messages), loading : BOOLEAN, error : BOOLEAN, model : Models,
          open : BOOLEAN, modelOpen : BOOLEAN, asked : 0 .. MaxAsks, cleared : 0 .. MaxAsks]
NewChat(model) ==
  [messages |-> <<>>, loading |-> FALSE, error |-> FALSE, model |-> model,
   open |-> FALSE, modelOpen |-> FALSE, asked |-> 0, cleared |-> 0]

Asks == [number : 1 .. MaxAsks, model : Models, answer : {"awaited", "content", "error"}]

ChatTypeOK ==
  /\ surface \in {"page", "widget"}
  /\ keys \subseteq Providers
  /\ chat \in Chats
  /\ asks \subseteq Asks

DefaultModel(s) == IF s = "page" THEN "gpt-4o-mini" ELSE "claude-sonnet"

ChatInit ==
  /\ surface \in {"page", "widget"}
  /\ keys \in SUBSET Providers
  /\ chat = NewChat(DefaultModel(surface))
  /\ asks = {}

(***************************************************************************)
(* What the chats show.                                                    *)
(***************************************************************************)
Shown == surface = "page" \/ chat.open
\* A text can be sent unless an answer is awaited; the page's suggestions send it as well.
AskPage == surface = "page" /\ ~chat.loading
AskWidget == surface = "widget" /\ chat.open /\ ~chat.loading
CanAsk == AskPage \/ AskWidget
CanClear == Shown /\ (surface = "page" \/ chat.messages # <<>>)
\* The page locks its model while it is thinking; the widget has a list to open.
CanChoose == IF surface = "page" THEN ~chat.loading ELSE chat.open /\ chat.modelOpen

(***************************************************************************)
(* The user.                                                               *)
(***************************************************************************)
Keep == UNCHANGED <<surface, keys>>

\* submit of the page, send of the widget.
submit ==
  /\ CanAsk /\ chat.asked < MaxAsks
  /\ LET n == chat.asked + 1
     IN  /\ chat' = [chat EXCEPT !.messages = Append(@, [role |-> "user", ask |-> n]),
                                 !.loading = TRUE, !.error = FALSE, !.asked = n]
         /\ asks' = asks \cup {[number |-> n, model |-> chat.model, answer |-> "awaited"]}
  /\ Keep

(* Variant, not part of the model: clearing also stops waiting for the answer. *)
clearHistoryAndWait ==
  /\ CanClear
  /\ chat' = [chat EXCEPT !.messages = <<>>, !.error = FALSE, !.loading = FALSE,
                          !.cleared = chat.asked]
  /\ UNCHANGED <<surface, keys, asks>>
\* clearHistory: an answer that is on its way still arrives.
clearHistory ==
  /\ CanClear
  /\ chat' = [chat EXCEPT !.messages = <<>>, !.error = FALSE, !.cleared = chat.asked]
  /\ UNCHANGED <<surface, keys, asks>>

ChooseModel ==
  /\ CanChoose
  /\ \E m \in Models : chat' = [chat EXCEPT !.model = m, !.modelOpen = FALSE]
  /\ UNCHANGED <<surface, keys, asks>>

\* The widget's button, cross and backdrop, and the button of its model list.
Toggle ==
  /\ surface = "widget"
  /\ \/ chat' = [chat EXCEPT !.open = ~@]
     \/ chat.open /\ chat' = [chat EXCEPT !.modelOpen = ~@]
  /\ UNCHANGED <<surface, keys, asks>>

\* The page can be left, and starts anew when it is opened again; the widget is part of
\* every page (web/app/layout.tsx).
Remount ==
  /\ surface = "page"
  /\ chat' = [NewChat(DefaultModel(surface)) EXCEPT !.asked = chat.asked, !.cleared = chat.asked]
  /\ asks' = {}
  /\ Keep

(***************************************************************************)
(* The route.                                                              *)
(***************************************************************************)
Provider(model) ==
  CASE model \in {"gpt-4o-mini", "gpt-4o"} -> "openai"
    [] model = "claude-sonnet"             -> "anthropic"
    [] OTHER                               -> "none"

\* Without its key, and for Gemini, the route never answers with a content.
RouteAnswer(a) ==
  /\ a.answer = "awaited"
  /\ \E answer \in {"content", "error"} :
       /\ answer = "content" => Provider(a.model) \in keys
       /\ asks' = (asks \ {a}) \cup {[a EXCEPT !.answer = answer]}
  /\ UNCHANGED <<surface, keys, chat>>

WithAnswer(a) == Append(chat.messages, [role |-> "assistant", ask |-> a.number])

(* Variant, not part of the model: a failure is caught and loading is kept. *)
ApplyAnswerNoFinally(a) ==
  /\ a.answer # "awaited"
  /\ asks' = asks \ {a}
  /\ chat' = IF a.answer = "content"
             THEN [chat EXCEPT !.messages = WithAnswer(a), !.loading = FALSE]
             ELSE [chat EXCEPT !.error = TRUE]
  /\ Keep
\* An answer goes to the end of whatever the list is by now.
ApplyAnswer(a) ==
  /\ a.answer # "awaited"
  /\ asks' = asks \ {a}
  /\ chat' = IF a.answer = "content"
             THEN [chat EXCEPT !.messages = WithAnswer(a), !.loading = FALSE]
             ELSE [chat EXCEPT !.error = TRUE, !.loading = FALSE]
  /\ Keep

ChatNext ==
  \/ submit \/ clearHistory \/ ChooseModel \/ Toggle \/ Remount
  \/ \E a \in asks : RouteAnswer(a) \/ ApplyAnswer(a)

ChatSpec == ChatInit /\ [][ChatNext]_chatVars

\* The route answers every request or fails, and the event loop runs what it answered.
ChatProgress == \E a \in asks : RouteAnswer(a) \/ ApplyAnswer(a)

(***************************************************************************)
(* Properties                                                              *)
(***************************************************************************)
\* The assistant's words stand under the question they answer, unless that question was
\* cleared away while it was being answered: then, and only then, they open the list.
AnswersFollowQuestions ==
  \A i \in DOMAIN chat.messages :
    LET m == chat.messages[i]
    IN  m.role = "assistant" =>
          IF i = 1 THEN m.ask <= chat.cleared
          ELSE chat.messages[i - 1] = [role |-> "user", ask |-> m.ask]

\* A chat does not think for ever: loading ends, with an answer or an error.
ThinkingEnds == chat.loading ~> ~chat.loading
===============================================================================
