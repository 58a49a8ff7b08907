------------------------------- MODULE Replies -------------------------------
(***************************************************************************)
(* Replies to incoming messages: the task-local route and encryption mode  *)
(* (TaskLocalReplyRoute of xmpp/messaging.py, TaskLocalEncryptionMode of   *)
(* xmpp/omemo/context.py), set while a handler answers a message, and the  *)
(* plan of an outgoing message (xmpp/outbound.py).  Code runs in a context *)
(* of its own, a task's or a callback's of the event loop, which starts as *)
(* a copy of the context that scheduled it; handlers nest, and suspend     *)
(* each other at their awaits.  A route is known by the kind of message it *)
(* answers; "none" is the caller's own target.                             *)
(***************************************************************************)
EXTENDS Naturals, Sequences

CONSTANTS
    Incoming,       \* kinds of incoming messages
    MaxContexts,    \* bound: tasks and callbacks
    MaxNesting      \* bound: handlers nested in one of them

ASSUME RepliesAssumption ==
    Incoming \subseteq {"chat", "groupchat", "occupant"} /\ {MaxContexts, MaxNesting} \subseteq Nat

VARIABLES
    ofTask,    \* per context: a task's, or one without a current task?
    context,   \* per context: both variables, with the task that set them, if any
    tokens,    \* per context: what the handlers that run in it will reset to
    handling,  \* history, per context: the messages it is itself answering
    heir       \* history, per context: the message that code outside every task
               \* was answering when it led to this one

replyVars == <<ofTask, context, tokens, handling, heir>>

NoTask == 0

Nothing == [route |-> "none", encrypted |-> "none"]
Unset == [owner |-> NoTask, route |-> "none", encrypted |-> "none"]
Flags == {"yes", "no", "none"}

\* message_context_from_stanza and reply_route: a room gets its answer, an
\* occupant gets a private one through the room.
RouteOf(message) == IF message = "groupchat" THEN "room" ELSE message

\* asyncio.current_task()
CurrentTask(c) == IF ofTask[c] THEN c ELSE NoTask

\* set() of both variables when a message is handled
HandleMessage(c, message, encrypted) ==
    /\ Len(tokens[c]) < MaxNesting
    /\ tokens' = [tokens EXCEPT ![c] = Append(@, context[c])]
    /\ context' = [context EXCEPT ![c] =
          [owner |-> CurrentTask(c), route |-> RouteOf(message), encrypted |-> encrypted]]
    /\ handling' = [handling EXCEPT ![c] =
          Append(@, [route |-> RouteOf(message), encrypted |-> encrypted])]
    /\ UNCHANGED <<ofTask, heir>>

ButLast(s) == SubSeq(s, 1, Len(s) - 1)

\* reset() of both, when the handler is done
HandlerEnds(c) ==
    /\ tokens[c] # <<>>
    /\ context' = [context EXCEPT ![c] = tokens[c][Len(tokens[c])]]
    /\ tokens' = [tokens EXCEPT ![c] = ButLast(@)]
    /\ handling' = [handling EXCEPT ![c] = ButLast(@)]
    /\ UNCHANGED <<ofTask, heir>>

Inherited(c) ==
    IF handling[c] = <<>> THEN heir[c]
    ELSE IF ofTask[c] THEN Nothing ELSE handling[c][Len(handling[c])]

\* create_task and call_soon copy the context.
Schedule(c, task) ==
    /\ Len(context) < MaxContexts
    /\ ofTask' = Append(ofTask, task)
    /\ context' = Append(context, context[c])
    /\ tokens' = Append(tokens, <<>>)
    /\ handling' = Append(handling, <<>>)
    /\ heir' = Append(heir, Inherited(c))

\* Fault: get() does not ask who set it.
GetInherited(c) == context[c]

\* get() of either variable: what was set outside every task, whoever asks
Got(c) == IF context[c].owner \in {NoTask, CurrentTask(c)} THEN context[c] ELSE Unset

\* What plan_outbound_message returns, with the route and mode of the context;
\* a durable message is kept only if can_persist_without_encryption_context.
Planned(c, encrypted, durable) ==
    LET effective == IF encrypted = "none" THEN Got(c).encrypted ELSE encrypted
    IN  [route |-> Got(c).route, encrypted |-> effective,
         persisted |-> durable /\ effective # "yes"]

RepliesInit ==
    /\ ofTask \in {<<task>> : task \in BOOLEAN}
    /\ context = <<Unset>>
    /\ tokens = <<<<>>>>
    /\ handling = <<<<>>>>
    /\ heir = <<Nothing>>

RepliesNext ==
    \E c \in DOMAIN context :
        \/ \E message \in Incoming, encrypted \in Flags : HandleMessage(c, message, encrypted)
        \/ HandlerEnds(c)
        \/ \E task \in BOOLEAN : Schedule(c, task)

RepliesSpec == RepliesInit /\ [][RepliesNext]_replyVars

-----------------------------------------------------------------------------
(***************************************************************************)
(* Properties.                                                             *)
(***************************************************************************)
\* What the context is answering: the last message that it is handling itself,
\* or else the one it was left with by code outside every task
Answering(c) ==
    IF handling[c] = <<>> THEN heir[c] ELSE handling[c][Len(handling[c])]

\* However handlers nest and whatever they schedule, a message planned at any
\* moment answers the message that is being handled there, over its route and no
\* less encrypted unless the caller says so.  What handles none answers nothing
\* that a task was handling ("without leaking it into child asyncio tasks"), but
\* goes on answering what a callback outside every task had scheduled it for.
\* And an encrypted reply never becomes a plaintext row.
RepliesAnswer ==
    \A c \in DOMAIN context, encrypted \in Flags, durable \in BOOLEAN :
        LET plan == Planned(c, encrypted, durable) IN
        /\ plan.route = Answering(c).route
        /\ plan.encrypted = IF encrypted = "none" THEN Answering(c).encrypted ELSE encrypted
        /\ plan.persisted => plan.encrypted # "yes"
=============================================================================
