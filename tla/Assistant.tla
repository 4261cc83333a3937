----------------------------- MODULE Assistant ------------------------------
(***************************************************************************)
(* The allAI chat of the management UI: management/allai.py.               *)
(*                                                                         *)
(* allai_chat gathers a context, asks the marketplace's assistant, runs by *)
(* itself the local tools it proposes where they are allowed and need no   *)
(* confirmation, and asks again with their results, MaxRounds times at     *)
(* most.  What it may not run by itself it keeps in allai_action_cache and *)
(* shows to the user, who approves or denies it with allai_confirm.        *)
(*                                                                         *)
(* The assistant (external) proposes what it likes, under ids of its own   *)
(* choice, and the configuration's allowed_tools may change at any time.   *)
(* What is said, and the data in contexts and results, are left out.       *)
(***************************************************************************)
EXTENDS Naturals, Sequences, FiniteSets

CONSTANTS
  Chats,       \* requests of allai_chat
  ActionIds,   \* ids the assistant gives to its actions
  ToolNames,   \* tools that are allowed or proposed
  MaxRounds,   \* MAX_AUTO_EXEC_DEPTH
  MaxProposed, \* bound: actions in one answer
  MaxConfirms  \* bound: calls of allai_confirm that find their action

ASSUME AssistantAssumption ==
  /\ ToolNames # {}
  /\ MaxRounds \in Nat \ {0} /\ MaxProposed \in Nat /\ MaxConfirms \in Nat

VARIABLES
  allowed, \* the configuration's allowed_tools
  held,    \* allai_action_cache: [ActionIds -> action, or Nothing]
  chat,    \* [Chats -> the locals of allai_chat]
  \* history
  ran,     \* the actions that were run: [action, by, allowed]
  shows,   \* [ActionIds -> how often an action of this id was shown]
  confirms \* [ActionIds -> how often one was approved and started]

assistantVars == <<allowed, held, chat, ran, shows, confirms>>

Actions == [id : ActionIds, tool : ToolNames, confirm : BOOLEAN]
Nothing == [id |-> "none"]

\* The lists of at most MaxProposed of the actions.
ListsOf(actions) == UNION {[1..n -> actions] : n \in 0..MaxProposed}
AllowedSets == (SUBSET ToolNames) \ {{}}
NewChat == [pc |-> "idle", depth |-> 0, allowed |-> {}, auto |-> <<>>, pending |-> <<>>]

AssistantTypeOK ==
  /\ allowed \in AllowedSets
  /\ \A i \in ActionIds : held[i] = Nothing \/ held[i] \in Actions
  /\ chat \in [Chats -> [pc : {"idle", "context", "asked", "next", "running", "answered", "failed"},
                         depth : 0..(MaxRounds - 1), allowed : SUBSET ToolNames,
                         auto : Seq(Actions), pending : Seq(Actions)]]
  /\ \A c \in Chats : Len(chat[c].auto) + Len(chat[c].pending) <= MaxProposed
  /\ shows \in [ActionIds -> Nat] /\ confirms \in [ActionIds -> Nat]

AssistantInit ==
  /\ allowed = ToolNames
  /\ held = [i \in ActionIds |-> Nothing]
  /\ chat = [c \in Chats |-> NewChat]
  /\ ran = {}
  /\ shows = [i \in ActionIds |-> 0] /\ confirms = [i \in ActionIds |-> 0]

\* What a local tool may come back with.  All of them only read, and all but
\* the market's probe turn what goes wrong into a result.
Outcomes(tool) ==
  CASE tool = "inspect_local_config"   -> {"config"}
    [] tool = "test_market_auth"       -> {"ok", "facade_unavailable", "raises"}
    [] tool = "scan_provider_endpoint" -> {"endpoint_not_configured", "unreachable", "answered"}
    [] tool = "list_local_tools"       -> {"tools"}
    [] tool = "tail_recent_logs"       -> {"entries"}
    [] tool = "explain_last_failure"   -> {"failure", "no failure"}
    [] OTHER                           -> {}

LocalTools == {t \in ToolNames : Outcomes(t) # {}}

\* _execute_action may run the action: by the allowed tools as they are now.
MayExecute(a) == a.tool \in allowed /\ a.tool \in LocalTools

-----------------------------------------------------------------------------
ConfigChanges ==
  /\ allowed' \in AllowedSets \ {allowed}
  /\ UNCHANGED <<held, chat, ran, shows, confirms>>

(***************************************************************************)
(* allai_chat up to its first request: the allowed tools are read, then    *)
(* _gather_context awaits the marketplace.  None of its parts can fail the *)
(* chat: what is missing only marks the context as degraded.               *)
(***************************************************************************)
ChatStarts(c) ==
  /\ chat[c].pc = "idle"
  /\ chat' = [chat EXCEPT ![c].pc = "context", ![c].allowed = allowed]
  /\ UNCHANGED <<allowed, held, ran, shows, confirms>>

ContextGathered(c) ==
  /\ chat[c].pc = "context"
  /\ chat' = [chat EXCEPT ![c].pc = "asked"]
  /\ UNCHANGED <<allowed, held, ran, shows, confirms>>

\* facade.post raises.
AskFails(c) ==
  /\ chat[c].pc = "asked"
  /\ chat' = [chat EXCEPT ![c] = [NewChat EXCEPT !.pc = "failed"]]
  /\ UNCHANGED <<allowed, held, ran, shows, confirms>>

\* The actions the chat runs without asking.
RunsItself(c, a) == ~a.confirm /\ a.tool \in chat[c].allowed

\* The rest, which from here on require confirmation.
ToConfirm(actions) == [k \in DOMAIN actions |-> [actions[k] EXCEPT !.confirm = TRUE]]

LastRound(c) == chat[c].depth = MaxRounds - 1

\* Where the actions of one id are in a list.
Under(pending, i) == {k \in DOMAIN pending : pending[k].id = i}

\* The end of allai_chat: what awaits the user is held, a later action of one
\* id in place of an earlier, and the answer shows it.
Holds(pending) ==
  [i \in ActionIds |->
     LET of == Under(pending, i)
     IN IF of = {} THEN held[i] ELSE pending[CHOOSE k \in of : \A j \in of : j <= k]]

Answers(c, pending) ==
  /\ held' = Holds(pending)
  /\ shows' = [i \in ActionIds |-> shows[i] + Cardinality(Under(pending, i))]
  /\ chat' = [chat EXCEPT ![c] = [NewChat EXCEPT !.pc = "answered"]]

(***************************************************************************)
(* One answer of the assistant, divided, in its order, into what the chat  *)
(* runs and the others.  With nothing to run, or in the last round, the    *)
(* chat ends, and in the last round what it would have run awaits the user *)
(* too.                                                                    *)
(***************************************************************************)
AssistantAnswers(c) ==
  /\ chat[c].pc = "asked"
  /\ LET mine == {a \in Actions : RunsItself(c, a)}
     IN \E auto \in ListsOf(mine), others \in ListsOf(Actions \ mine) :
          /\ Len(auto) + Len(others) <= MaxProposed
          /\ \/ /\ auto = <<>> \/ LastRound(c)
                /\ Answers(c, ToConfirm(others) \o ToConfirm(auto))
             \/ /\ auto # <<>> /\ ~LastRound(c)
                /\ chat' = [chat EXCEPT ![c].pc = "next", ![c].auto = auto,
                                        ![c].pending = ToConfirm(others)]
                /\ UNCHANGED <<held, shows>>
  /\ UNCHANGED <<allowed, ran, confirms>>

\* The next of the actions to run: an action that is no longer allowed, or
\* whose tool is unknown, ends the chat, with what is pending in it.
RunsNext(c) ==
  LET a == Head(chat[c].auto)
  IN /\ chat[c].pc = "next"
     /\ IF MayExecute(a)
        THEN /\ chat' = [chat EXCEPT ![c].pc = "running"]
             /\ ran' = ran \cup {[action |-> a, by |-> "chat", allowed |-> allowed]}
        ELSE /\ chat' = [chat EXCEPT ![c] = [NewChat EXCEPT !.pc = "failed"]]
             /\ UNCHANGED ran
     /\ UNCHANGED <<allowed, held, shows, confirms>>

\* The chat asks again, with the results.
GoesOn(c) == [chat EXCEPT ![c].pc = "asked", ![c].auto = <<>>, ![c].depth = @ + 1]

\* A tool has returned: there is more to run, or the round is over, and with
\* it the chat if something awaits the user.
ToolReturns(c) ==
  /\ chat[c].pc = "running"
  /\ Outcomes(Head(chat[c].auto).tool) # {"raises"}
  /\ \/ /\ Len(chat[c].auto) > 1
        /\ chat' = [chat EXCEPT ![c].pc = "next", ![c].auto = Tail(@)]
        /\ UNCHANGED <<held, shows>>
     \/ /\ Len(chat[c].auto) = 1
        /\ IF chat[c].pending # <<>> THEN Answers(c, chat[c].pending)
           ELSE chat' = GoesOn(c) /\ UNCHANGED <<held, shows>>
  /\ UNCHANGED <<allowed, ran, confirms>>

ToolRaises(c) ==
  /\ chat[c].pc = "running"
  /\ "raises" \in Outcomes(Head(chat[c].auto).tool)
  /\ chat' = [chat EXCEPT ![c] = [NewChat EXCEPT !.pc = "failed"]]
  /\ UNCHANGED <<allowed, held, ran, shows, confirms>>

\* Mutant of Taken: the action stays in the cache until it has run.
TakenLater(i) == held

\* cache.pop
Taken(i) == [held EXCEPT ![i] = Nothing]

(***************************************************************************)
(* allai_confirm, up to the await of the tool: the action leaves the cache *)
(* whether it is approved, denied or no longer allowed.                    *)
(***************************************************************************)
Confirm(i, approved) ==
  /\ held[i] # Nothing
  /\ confirms[i] < MaxConfirms
  /\ held' = Taken(i)
  /\ IF approved /\ MayExecute(held[i])
     THEN /\ ran' = ran \cup {[action |-> held[i], by |-> "user", allowed |-> allowed]}
          /\ confirms' = [confirms EXCEPT ![i] = @ + 1]
     ELSE UNCHANGED <<ran, confirms>>
  /\ UNCHANGED <<allowed, chat, shows>>

ChatSteps(c) ==
  \/ ContextGathered(c) \/ AskFails(c) \/ AssistantAnswers(c)
  \/ RunsNext(c) \/ ToolReturns(c) \/ ToolRaises(c)

AssistantNext ==
  \/ ConfigChanges
  \/ \E c \in Chats : ChatStarts(c) \/ ChatSteps(c)
  \/ \E i \in ActionIds, approved \in BOOLEAN : Confirm(i, approved)

AssistantSpec == AssistantInit /\ [][AssistantNext]_assistantVars

\* The requests and the local tools have time limits.
AssistantFairness == \A c \in Chats : WF_assistantVars(ChatSteps(c))

-----------------------------------------------------------------------------
(***************************************************************************)
(* A chat never runs by itself what the assistant wanted confirmed, and    *)
(* neither a chat nor a user's approval runs a tool that the configuration *)
(* forbids at that moment, though the chat chose by the list it read at    *)
(* its start and an approval may come long after.                          *)
(***************************************************************************)
RunsAreAllowed ==
  \A r \in ran : r.action.tool \in r.allowed /\ (r.action.confirm <=> r.by = "user")

(***************************************************************************)
(* An action the user was shown runs once at most, however often and from  *)
(* however many windows it is approved.                                    *)
(***************************************************************************)
RunsOncePerShow == \A i \in ActionIds : confirms[i] <= shows[i]

\* What the assistant proposes is run only if its tool is allowed by then, and
\* what the user has to confirm only by the user, once for each time shown.
AssistantSafe == AssistantTypeOK /\ RunsAreAllowed /\ RunsOncePerShow

\* A chat that has begun comes to an answer or an error: the rounds of an
\* assistant that always proposes something more are limited.
ChatsEnd == \A c \in Chats : chat[c].pc # "idle" ~> chat[c].pc \in {"answered", "failed"}
=============================================================================
