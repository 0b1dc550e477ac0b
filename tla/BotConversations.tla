-------------------------- MODULE BotConversations --------------------------
(***************************************************************************)
(* The storefront bot.  Each tab keeps the session id of its conversation  *)
(* in sessionStorage, and sends one message at a time; BotMessageView      *)
(* finds the conversation of the id or makes one, and then stores the      *)
(* message, its answer and the status of the conversation in a             *)
(* transaction.  A tab that gives up waiting may send again while its      *)
(* first message is still being served.  A checkout links the conversation *)
(* of its session id to the order.                                         *)
(***************************************************************************)
EXTENDS Naturals, FiniteSets

CONSTANTS
  BotTabs,
  MaxMessages,  \* bound: messages sent
  BotOrders

ASSUME BotBoundsAssumption == MaxMessages \in Nat

VARIABLES
  session,   \* sessionStorage of each tab: its conversation, 0 for none
  awaits,    \* the message each tab waits for, 0 for none
  message,   \* the messages in the order sent
  sentBot,   \* how many were sent
  conv,      \* the BotConversation rows
  inserted,  \* how many message pairs were inserted
  missed     \* history: tabs that did not get an answer to their messages

botVars == <<session, awaits, message, sentBot, conv, inserted, missed>>

Messages == 1..MaxMessages
Intents == {"human_support", "other"}
NoConv == [status |-> "none", by |-> 0, order |-> "none", shared |-> FALSE]
\* Conversations are named by the message that made them.
Unsent == [step |-> "unsent", tab |-> "none", intent |-> "other", conv |-> 0, place |-> 0]

BotTypeOK ==
  /\ session \in [BotTabs -> {0} \cup {c \in Messages : conv[c] # NoConv}]
  /\ awaits \in [BotTabs -> 0..sentBot]
  /\ message \in [Messages ->
       [step : {"unsent", "sent", "resolved", "inserted", "stored", "dead"},
        tab : BotTabs \cup {"none"}, intent : Intents,
        conv : 0..MaxMessages, place : 0..MaxMessages]]
  /\ conv \in [Messages ->
       [status : {"none", "open", "waiting_customer", "waiting_human"},
        by : 0..MaxMessages, order : BotOrders \cup {"none"}, shared : BOOLEAN]]
  /\ inserted \in 0..sentBot /\ sentBot \in 0..MaxMessages
  /\ missed \subseteq BotTabs

BotInit ==
  /\ session = [t \in BotTabs |-> 0] /\ awaits = [t \in BotTabs |-> 0]
  /\ message = [m \in Messages |-> Unsent] /\ sentBot = 0
  /\ conv = [c \in Messages |-> NoConv] /\ inserted = 0
  /\ missed = {}
-----------------------------------------------------------------------------
\* sendMessage, with the session id of the tab if it has one.  The intent is
\* build_bot_reply's.
SendMessage(t, intent) ==
  /\ awaits[t] = 0 /\ sentBot < MaxMessages
  /\ sentBot' = sentBot + 1
  /\ awaits' = [awaits EXCEPT ![t] = sentBot + 1]
  /\ message' = [message EXCEPT ![sentBot + 1] =
       [step |-> "sent", tab |-> t, intent |-> intent, conv |-> session[t], place |-> 0]]
  /\ UNCHANGED <<session, conv, inserted, missed>>

\* Mutated form: the id of the client is not looked up.
AlwaysCreate(m) ==
  /\ message[m].step = "sent"
  /\ conv' = [conv EXCEPT ![m] = [NoConv EXCEPT !.status = "open"]]
  /\ message' = [message EXCEPT ![m].step = "resolved", ![m].conv = m]
  /\ UNCHANGED <<session, awaits, sentBot, inserted, missed>>

\* _resolve_conversation: one that is not known is made, with an id of its own.
ResolveConversation(m) ==
  LET c == message[m].conv
  IN /\ message[m].step = "sent"
     /\ conv' = IF c = 0 THEN [conv EXCEPT ![m] = [NoConv EXCEPT !.status = "open"]]
                ELSE conv
     /\ message' = [message EXCEPT ![m].step = "resolved", ![m].conv = IF c = 0 THEN m ELSE c]
     /\ UNCHANGED <<session, awaits, sentBot, inserted, missed>>

Serving(c) == {m \in Messages : message[m].conv = c
                                /\ message[m].step \in {"sent", "resolved", "inserted"}}

\* The transaction inserts the message and its answer, which fixes their place
\* in the conversation.
Insert(m) ==
  LET c == message[m].conv
  IN /\ message[m].step = "resolved"
     /\ inserted' = inserted + 1
     /\ message' = [message EXCEPT ![m].step = "inserted", ![m].place = inserted + 1]
     /\ conv' = [conv EXCEPT ![c].shared = @ \/ Serving(c) # {m}]
     /\ UNCHANGED <<session, awaits, sentBot, missed>>

\* Mutated form: the status is only ever raised to "waiting_human".
SaveFirstIntent(m) ==
  LET c == message[m].conv
  IN /\ message[m].step = "inserted"
     /\ conv' = [conv EXCEPT ![c].status = IF @ = "waiting_human" THEN @
          ELSE IF message[m].intent = "human_support" THEN "waiting_human" ELSE "waiting_customer"]
     /\ message' = [message EXCEPT ![m].step = "stored"]
     /\ UNCHANGED <<session, awaits, sentBot, inserted, missed>>

\* It saves the status this message calls for, and commits.
SaveStatus(m) ==
  LET c == message[m].conv
  IN /\ message[m].step = "inserted"
     /\ conv' = [conv EXCEPT ![c].by = m, ![c].status =
          IF message[m].intent = "human_support" THEN "waiting_human" ELSE "waiting_customer"]
     /\ message' = [message EXCEPT ![m].step = "stored"]
     /\ UNCHANGED <<session, awaits, sentBot, inserted, missed>>

\* The worker dies; what a transaction has inserted goes.
BotDies(m) ==
  /\ message[m].step \in {"sent", "resolved", "inserted"}
  /\ message' = [message EXCEPT ![m].step = "dead", ![m].place = 0]
  /\ UNCHANGED <<session, awaits, sentBot, conv, inserted, missed>>

\* The answer names the session, and the tab keeps it.
AnswerArrives(t) ==
  /\ awaits[t] # 0 /\ message[awaits[t]].step = "stored"
  /\ session' = [session EXCEPT ![t] = message[awaits[t]].conv]
  /\ awaits' = [awaits EXCEPT ![t] = 0]
  /\ UNCHANGED <<message, sentBot, conv, inserted, missed>>

\* No answer, or an error: the message may be sent again.
AnswerMissing(t) ==
  /\ awaits[t] # 0
  /\ awaits' = [awaits EXCEPT ![t] = 0]
  /\ missed' = missed \cup {t}
  /\ UNCHANGED <<session, message, sentBot, conv, inserted>>

\* A checkout of the tab: its conversation is linked to the order unless it has
\* one.
LinkOrder(t, o) ==
  LET c == session[t]
  IN /\ \A d \in Messages : conv[d].order # o
     /\ c # 0 /\ conv[c].order = "none"
     /\ conv' = [conv EXCEPT ![c].order = o]
     /\ UNCHANGED <<session, awaits, message, sentBot, inserted, missed>>

BotNext ==
  \/ \E t \in BotTabs :
       \/ \E intent \in Intents : SendMessage(t, intent)
       \/ \E o \in BotOrders : LinkOrder(t, o)
       \/ AnswerArrives(t) \/ AnswerMissing(t)
  \/ \E m \in Messages :
       ResolveConversation(m) \/ Insert(m) \/ SaveStatus(m) \/ BotDies(m)

BotSpec == BotInit /\ [][BotNext]_botVars
-----------------------------------------------------------------------------
\* All that a tab has said is in one conversation, unless an answer was lost
\* before the tab knew its session; the rows are found and made without a lock.
OneConversationPerTab ==
  \A t \in BotTabs \ missed :
    Cardinality({message[m].conv : m \in {n \in Messages : message[n].tab = t}} \ {0}) <= 1

\* The dashboard shows the status that the last message in the conversation
\* calls for, so that a customer who asks for a person is not lost, unless two
\* messages of the conversation were served at once.
StatusIsOfLastMessage ==
  \A c \in Messages :
    LET stored == {m \in Messages : message[m].conv = c /\ message[m].step = "stored"}
    IN \A m \in stored :
         \/ conv[c].shared
         \/ \E n \in stored : message[n].place > message[m].place
         \/ conv[c].status = "waiting_human" <=> message[m].intent = "human_support"
=============================================================================
