--------------------------- MODULE IdentityAgents ---------------------------
(***************************************************************************)
(* The two agents with identity, as functions of a question: the personal  *)
(* agent answers from its table or asks the finance agent, which answers   *)
(* from its own.  Each looks for words anywhere in the text, so a question *)
(* is told apart by the words that it contains; none of them contains      *)
(* another.                                                                *)
(***************************************************************************)
EXTENDS Naturals, Sequences

Row(words, answer) == [words |-> words, answer |-> answer]

\* PERSONAL_RESPONSES, in its order.
PersonalTable == <<
  Row({"hello"}, "hello"), Row({"hi"}, "hi"), Row({"how are you"}, "mood"),
  Row({"what can you do"}, "help"), Row({"schedule"}, "schedule"), Row({"tasks"}, "tasks"),
  Row({"reminder"}, "reminder"), Row({"weather"}, "weather"), Row({"name"}, "name")>>

\* FINANCE_KEYWORD_MAP, in its order.
FinanceTable == <<
  Row({"balance", "account", "how much", "money"}, "balance"),
  Row({"transaction", "spent", "purchase", "recent"}, "transactions"),
  Row({"budget", "spending", "expense", "category"}, "budget"),
  Row({"invest", "portfolio", "stock", "holding", "return"}, "investments"),
  Row({"credit", "score", "fico"}, "credit"),
  Row({"loan", "mortgage", "debt", "liabilit"}, "loan"),
  Row({"saving", "save"}, "savings")>>

\* Faulty variant: a word of the list is forgotten.
FinanceKeywordsWithoutDebt ==
  {"balance", "account", "transaction", "budget", "invest", "portfolio", "stock", "credit", "loan",
   "mortgage", "saving", "finance", "money", "spending", "expense", "payment", "bank", "return"}

\* FINANCE_KEYWORDS, by which the personal agent knows a question of finance.
FinanceKeywords ==
  {"balance", "account", "transaction", "budget", "invest", "portfolio", "stock", "credit", "loan",
   "mortgage", "saving", "finance", "money", "spending", "expense", "payment", "bank", "debt", "return"}

WordsOf(table) == UNION {table[i].words : i \in DOMAIN table}

\* The answer of the first row that has a word of the text.
FirstMatch(table, text) ==
  LET hits == {i \in DOMAIN table : table[i].words \cap text # {}}
  IN  IF hits = {} THEN "default" ELSE table[CHOOSE i \in hits : \A j \in hits : i <= j].answer

MatchLocal(text) == FirstMatch(PersonalTable, text)
Match(text) == FirstMatch(FinanceTable, text)
IsFinanceQuery(text) == text \cap FinanceKeywords # {}

\* The text of a response: of its message, none, or the whole of an error.
ResponseText(response, text) ==
  CASE response = "message" -> text
    [] response = "empty" -> "noText"
    [] response = "error" -> "dump"

\* call_agent returns a text whatever happens; only the gateway between the
\* agents can make the response anything but the finance agent's message.
CallAgent(text) == {ResponseText(response, text) : response \in {"message", "empty", "error"}} \cup {"apology"}

\* execute, with the prefix of an answer that was routed.
PersonalReply(text) ==
  IF IsFinanceQuery(text) THEN [by : {"finance"}, says : CallAgent(Match(text))]
  ELSE [by : {"personal"}, says : {MatchLocal(text)}]
=============================================================================
