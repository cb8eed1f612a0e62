------------------------------ MODULE Compaction ------------------------------
(* The compaction manager (runtime/compaction/manager.go) for one session:    *)
(* messages with cursors and tokens, older ones replaced by a summary when    *)
(* their tokens reach a share of the window, or on demand. It is one lock held*)
(* by each operation, but for MaybeCompact, which looks at the total, lets the*)
(* lock go and compacts afterwards; messages and other compactions come in    *)
(* between. The summarizer is the default one, which strings the messages     *)
(* together. The text of a message is the sequence of the messages it tells,  *)
(* each by the number it was appended as; one token tells one.                *)
EXTENDS Naturals, Sequences

CONSTANTS KeepRecent,     \* KeepRecentMessages
          SummaryLength,  \* MaxSummaryChars, in messages told
          Threshold,      \* the tokens from which MaybeCompact compacts
          MaxAppended, MaxCompactions \* bounds

ASSUME CompactionAssumption ==
  /\ {KeepRecent, SummaryLength, Threshold} \subseteq Nat \ {0}
  /\ {MaxAppended, MaxCompactions} \subseteq Nat

VARIABLES
  messages,    \* the messages, oldest first: cursor, text and tokens
  nextCursor, total, summary, cursorMap, \* the other fields of sessionState
  due,         \* callers of MaybeCompact between its look and its compaction
  origin,      \* ghost: the number of a message -> the cursor it was given
  cutOff,      \* ghost: the messages a summary was too long to tell
  compactions  \* count

compactionVars == <<messages, nextCursor, total, summary, cursorMap, due, origin, cutOff,
                    compactions>>

TokensOf(ms) ==
  LET sum[n \in 0..Len(ms)] == IF n = 0 THEN 0 ELSE sum[n - 1] + ms[n].tokens
  IN sum[Len(ms)]
TextsOf(ms) ==
  LET texts[n \in 0..Len(ms)] == IF n = 0 THEN <<>> ELSE texts[n - 1] \o ms[n].text
  IN texts[Len(ms)]

ToldIn(text) == {text[k] : k \in 1..Len(text)}
CursorsOf(ms) == {ms[j].cursor : j \in 1..Len(ms)}

CompactionInit ==
  /\ messages = <<>> /\ nextCursor = 0 /\ total = 0 /\ summary = <<>>
  /\ cursorMap = <<>> /\ due = 0 /\ origin = <<>> /\ cutOff = {} /\ compactions = 0

\* tokens: what the caller counted, or an estimate.
AppendMessage(tokens) ==
  /\ Len(origin) < MaxAppended
  /\ nextCursor' = nextCursor + 1
  /\ messages' = Append(messages, [cursor |-> nextCursor', text |-> <<Len(origin) + 1>>,
                                   tokens |-> tokens])
  /\ total' = total + tokens
  /\ cursorMap' = [c \in DOMAIN cursorMap \cup {nextCursor'} |->
                     IF c = nextCursor' THEN c ELSE cursorMap[c]]
  /\ origin' = Append(origin, nextCursor')
  /\ UNCHANGED <<summary, due, cutOff, compactions>>

\* truncateSummary: the beginning is kept.
Truncated(text) == IF Len(text) <= SummaryLength THEN text ELSE SubSeq(text, 1, SummaryLength)

\* Mutant: the first message to keep is neither kept nor summarised.
KeptMessages_OneLess(ms) == SubSeq(ms, Len(ms) - KeepRecent + 2, Len(ms))
KeptMessages(ms) == SubSeq(ms, Len(ms) - KeepRecent + 1, Len(ms))
OldMessages(ms) == SubSeq(ms, 1, Len(ms) - KeepRecent)

(* The summary goes into the new one twice: as the summary kept aside and as  *)
(* the message it was put into, which is the oldest of those compacted.       *)
Summarized(old) ==
  LET told == summary \o TextsOf(old)
      text == Truncated(told)
      message == [cursor |-> nextCursor + 1, text |-> text, tokens |-> Len(text)]
  IN /\ nextCursor' = nextCursor + 1
     /\ messages' = <<message>> \o KeptMessages(messages)
     /\ summary' = text
     /\ total' = TokensOf(messages')
     /\ cursorMap' = [c \in CursorsOf(messages') \cup CursorsOf(old) |->
                        IF c \in CursorsOf(old) THEN message.cursor ELSE c]
     /\ cutOff' = cutOff \cup (ToldIn(told) \ ToldIn(text))

\* Compact: nothing to do, or a hook or the summarizer fails, or it is done. The
\* decision of the hook is not looked at.
Compact ==
  /\ compactions < MaxCompactions /\ compactions' = compactions + 1
  /\ \/ Len(messages) > KeepRecent /\ Summarized(OldMessages(messages))
     \/ UNCHANGED <<messages, nextCursor, total, summary, cursorMap, cutOff>>
  /\ UNCHANGED origin

ManualCompact == Compact /\ UNCHANGED due

\* MaybeCompact: shouldAutoCompact first, ...
LookAtTotal ==
  /\ total >= Threshold /\ due + compactions < MaxCompactions /\ due' = due + 1
  /\ UNCHANGED <<messages, nextCursor, total, summary, cursorMap, origin, cutOff,
                 compactions>>

\* ... then Compact, whatever has become of the total.
AutoCompact == due > 0 /\ due' = due - 1 /\ Compact

CompactionNext ==
  \/ \E tokens \in {1, 2} : AppendMessage(tokens)
  \/ ManualCompact \/ LookAtTotal \/ AutoCompact

CompactionSpec == CompactionInit /\ [][CompactionNext]_compactionVars
-------------------------------------------------------------------------------
\* ResolveCursor, as far as the map goes.
Resolved(i) == {j \in 1..Len(messages) : messages[j].cursor = cursorMap[origin[i]]}

(* Nothing is lost in a compaction but what the summary was too long to tell: *)
(* every message appended is still told, in one place or in the summary.      *)
NothingForgotten ==
  \A i \in 1..Len(origin) :
    i \in cutOff \/ \E j \in 1..Len(messages) : i \in ToldIn(messages[j].text)

(* The latest messages stay word for word, in order, behind one summary.      *)
RecentVerbatim ==
  \A j \in 1..Len(messages) : j > Len(messages) - KeepRecent =>
    messages[j].text = <<Len(origin) - Len(messages) + j>>

(* A cursor that still resolves leads to a message that tells what was there. *)
CursorsLead ==
  \A i \in 1..Len(origin) : origin[i] \in DOMAIN cursorMap =>
    \E j \in Resolved(i) : i \in ToldIn(messages[j].text) \cup cutOff

(* However appends and compactions alternate and whichever of them fail, the  *)
(* context stays whole: nothing told is forgotten, the latest messages are as *)
(* they were, cursors lead to what they stood for, and the total that decides *)
(* on the next compaction is the sum of what there is.                        *)
ContextIsWhole ==
  NothingForgotten /\ RecentVerbatim /\ CursorsLead /\ total = TokensOf(messages)
===============================================================================
