------------------------------ MODULE AnswerText ------------------------------
(***************************************************************************)
(* How the chat widget shows an answer (renderMarkdown and CodeBlock of    *)
(* web/components/shared/ai-chat-widget.tsx): a loop turns the lines of a  *)
(* text into headings, bullets, breaks, paragraphs and blocks of code, and *)
(* each block has a button that copies it.  A line is what the patterns of *)
(* renderMarkdown tell apart; what stands in it is left out.               *)
(***************************************************************************)
EXTENDS Naturals, Sequences, SequencesExt

CONSTANT
    MaxAnswerLines  \* bound: the lines of an answer

VARIABLES
    text,           \* the kinds of the answer's lines
    cursor,         \* the line the loop is at
    elements,       \* what it has made of the lines above
    marked,         \* the blocks whose button says "Copied"
    timers          \* the blocks whose copies have a timer running

answerVars == <<text, cursor, elements, marked, timers>>

(* A "fence" is three backticks and at most a word; a "ticks" line begins  *)
(* with three backticks and goes on: it can close a block, not open one.   *)
LineKinds == {"fence", "ticks", "heading", "bullet", "blank", "plain"}
Backticks == {"fence", "ticks"}
(* A text that is split has at least one line.                             *)
Texts == BoundedSeq(LineKinds, MaxAnswerLines) \ {<<>>}

---------------------------------------------------------------------------
(* An element shows the lines from first to last, none in an empty block,  *)
(* and has a key by which React tells it from its siblings.                *)
Element(tag, first, last, key) ==
    [tag |-> tag, first |-> first, last |-> last, key |-> key]

Tag(line) == CASE line = "heading" -> "heading"
               [] line = "bullet"  -> "bullet"
               [] line = "blank"   -> "break"
               [] OTHER            -> "paragraph"

(* The line that closes the block that opens here: the next one with three *)
(* backticks, or the end of the text.                                      *)
Closing ==
    LET later == {j \in cursor + 1 .. Len(text) : text[j] \in Backticks}
    IN  IF later = {} THEN Len(text) + 1 ELSE Min(later)

AnswerInit ==
    /\ text \in Texts
    /\ cursor = 1 /\ elements = <<>>
    /\ marked = {} /\ timers = {}

Block ==
    /\ cursor <= Len(text) /\ text[cursor] = "fence"
    /\ elements' = Append(elements, Element("code", cursor + 1, Closing - 1, Closing))
    /\ cursor' = Closing + 1
    /\ UNCHANGED <<text, marked, timers>>

Line ==
    /\ cursor <= Len(text) /\ text[cursor] # "fence"
    /\ elements' = Append(elements, Element(Tag(text[cursor]), cursor, cursor, cursor))
    /\ cursor' = cursor + 1
    /\ UNCHANGED <<text, marked, timers>>

(* The widget has the elements when the loop has ended.                    *)
Rendered == cursor > Len(text)
CodeBlocks == {n \in DOMAIN elements : elements[n].tag = "code"}

(* Each copy starts a timer, and the first one that ends takes the mark.   *)
Copy(n) ==
    /\ Rendered
    /\ marked' = marked \cup {n}
    /\ timers' = timers \cup {n}
    /\ UNCHANGED <<text, cursor, elements>>

CopiedEnds(n) ==
    /\ n \in timers
    /\ marked' = marked \ {n}
    /\ timers' \in {timers, timers \ {n}}
    /\ UNCHANGED <<text, cursor, elements>>

AnswerNext ==
    \/ Block \/ Line
    \/ \E n \in CodeBlocks : Copy(n) \/ CopiedEnds(n)

AnswerSpec == AnswerInit /\ [][AnswerNext]_answerVars

---------------------------------------------------------------------------
(* A mark is only on a block of code whose timer will take it away.        *)
AnswerTypeOK ==
    /\ text \in Texts
    /\ cursor \in 1 .. Len(text) + 2
    /\ elements \in Seq([tag : {"code", "heading", "bullet", "break", "paragraph"},
                         first : Nat, last : Nat, key : Nat])
    /\ marked \subseteq timers /\ timers \subseteq CodeBlocks

(* What a reader sees of an answer: its lines in their order, every one    *)
(* without backticks in some element, and in a block of code those that    *)
(* stand between its fence and the next backticks; no two elements have    *)
(* one key.  What the line that closes a block says after its backticks is *)
(* not shown (renderMarkdown).                                             *)
AnswerIsShown ==
    /\ \A m, n \in DOMAIN elements :
           m < n => /\ elements[m].last < elements[n].first
                    /\ elements[m].key < elements[n].key
    /\ Rendered =>
           \A i \in DOMAIN text : text[i] \notin Backticks =>
               \E n \in DOMAIN elements : i \in elements[n].first .. elements[n].last
    /\ \A n \in CodeBlocks :
           /\ elements[n].first > 1 /\ text[elements[n].first - 1] = "fence"
           /\ \A i \in elements[n].first .. elements[n].last : text[i] \notin Backticks
===============================================================================
