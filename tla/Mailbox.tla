------------------------------- MODULE Mailbox -------------------------------
(***************************************************************************)
(* Messages between the runs of one collaboration: the durable table        *)
(* (store/agent_messages.py), the middleware that shows a run its mail      *)
(* before each model call (middleware/agent_mailbox.py), and the tool calls *)
(* that send, answer and acknowledge.  An attempt may be lost at any point; *)
(* the next one goes on from the checkpoint, repeats the step that was not  *)
(* saved, and repeats a tool call whose end is unknown.                     *)
(***************************************************************************)
EXTENDS Naturals, Sequences, FiniteSets, FiniteSetsExt

CONSTANTS
    Peer,         \* the root run and its children
    MaxPending,   \* MAX_AGENT_MAILBOX_PENDING
    MaxPerRoot,   \* MAX_AGENT_MAILBOX_MESSAGES_PER_ROOT
    MaxHops,      \* MAX_AGENT_MAILBOX_HOPS
    MaxLosses     \* bound: attempts that are lost

ASSUME MailAssumption ==
    /\ IsFiniteSet(Peer)
    /\ MaxPending \in Nat /\ MaxPerRoot \in Nat /\ MaxHops \in Nat /\ MaxLosses \in Nat

VARIABLES
    mail,      \* local_agent_messages
    head,      \* of a run: the next node of its checkpointed graph, or ended
    shown,     \* of a run: the messages in its checkpointed state
    fetched,   \* of the current attempt: what was delivered to it and is not yet saved
    call,      \* of a run: its mailbox tool call
    losses

mailVars == <<mail, head, shown, fetched, call, losses>>

NoCall == [what |-> "none", arg |-> 0, to |-> "none", receipt |-> "none", made |-> 0]
NotFetched == [done |-> FALSE, ids |-> {}]
Ids == DOMAIN mail
Addressed(r) == {m \in Ids : mail[m].to = r}
Open == {"queued", "delivered"}

MailInit ==
    /\ mail = <<>>
    /\ head = [r \in Peer |-> "before"]
    /\ shown = [r \in Peer |-> {}]
    /\ fetched = [r \in Peer |-> NotFetched]
    /\ call = [r \in Peer |-> NoCall]
    /\ losses = 0

-----------------------------------------------------------------------------
(* Attempts.                                                               *)

\* What was not saved is gone; a running receipt becomes outcome_unknown.  The next
\* attempt goes on from the checkpoint.
Lose(r) ==
    /\ head[r] # "ended" /\ losses < MaxLosses
    /\ losses' = losses + 1
    /\ fetched' = [fetched EXCEPT ![r] = NotFetched]
    /\ call' = [call EXCEPT ![r].receipt = IF @ \in {"running", "answered"} THEN "unknown" ELSE @]
    /\ UNCHANGED <<mail, head, shown>>

-----------------------------------------------------------------------------
(* abefore_model.                                                          *)

\* What is open in the mailbox of a run; any of it may be past its deadline.
OpenMail(r) == {m \in Addressed(r) : mail[m].status \in Open}

\* _expire_agent_messages_uncommitted.
Expired(late) ==
    [m \in Ids |-> IF m \in late THEN [mail[m] EXCEPT !.status = "expired"] ELSE mail[m]]

\* MUTANT of Returned: only what this call has delivered.
ReturnedOnce(r, table) == {m \in Addressed(r) : mail[m].status = "queued"
                                                /\ table[m].status = "delivered"}

\* Whatever has been delivered and is not acknowledged, by this call or an earlier one.
Returned(r, table) == {m \in Addressed(r) : table[m].status = "delivered"}

Deliver(r, late) ==
    LET e == Expired(late)
        table == [m \in Ids |-> IF mail[m].to = r /\ e[m].status = "queued"
                                THEN [e[m] EXCEPT !.status = "delivered"] ELSE e[m]]
    IN /\ head[r] = "before" /\ ~fetched[r].done
       /\ mail' = table
       /\ fetched' = [fetched EXCEPT ![r] = [done |-> TRUE, ids |-> Returned(r, table)]]
       /\ UNCHANGED <<head, shown, call, losses>>

\* The node's update is saved before the model is called.
Save(r) ==
    /\ fetched[r].done
    /\ shown' = [shown EXCEPT ![r] = @ \cup fetched[r].ids]
    /\ head' = [head EXCEPT ![r] = "model"]
    /\ fetched' = [fetched EXCEPT ![r] = NotFetched]
    /\ UNCHANGED <<mail, call, losses>>

-----------------------------------------------------------------------------
(* The model and its tool calls.                                           *)

Calling(r, c) ==
    /\ head[r] = "model"
    /\ head' = [head EXCEPT ![r] = "tools"]
    /\ call' = [call EXCEPT ![r] = c]
    /\ UNCHANGED <<mail, shown, fetched, losses>>

AskSend(r, to) == to # r /\ Calling(r, [NoCall EXCEPT !.what = "send", !.to = to])
AskReply(r, m) == m \in shown[r] /\ Calling(r, [NoCall EXCEPT !.what = "reply", !.arg = m])
AskAck(r, m) == m \in shown[r] /\ Calling(r, [NoCall EXCEPT !.what = "ack", !.arg = m])

EndRun(r) ==
    /\ head[r] = "model"
    /\ head' = [head EXCEPT ![r] = "ended"]
    /\ UNCHANGED <<mail, shown, fetched, call, losses>>

\* prepare_tool_receipt, for an unknown outcome reconcile_tool_receipt, and the start.
Begin(r) ==
    /\ call[r].receipt \in {"none", "unknown"} /\ call[r].what # "none"
    /\ call' = [call EXCEPT ![r].receipt = "running"]
    /\ UNCHANGED <<mail, head, shown, fetched, losses>>

\* The transaction's result, or the error of a refusal, is now with the middleware.
Answer(r, made) == call' = [call EXCEPT ![r].receipt = "answered", ![r].made = made]

Conversation(c) == {m \in Ids : mail[m].corr = c}

\* MUTANT of NextInConversation: the number after the message that is answered.
NextAfterOriginal(m) == mail[m].seq + 1

\* MAX(sequence) and MAX(hop_count) of the conversation, which grow together.
NextInConversation(m) == Max({mail[k].seq : k \in Conversation(mail[m].corr)}) + 1

Refuse(r) == Answer(r, 0) /\ UNCHANGED mail

\* The guards of _insert_agent_message_uncommitted on the recipient and its mailbox.
Insertable(to, late) ==
    /\ head[to] # "ended"
    /\ Cardinality(OpenMail(to) \ late) < MaxPending
    /\ Len(mail) < MaxPerRoot

\* One row for one operation id: a repeated call finds the row it had inserted.
Insert(r, to, corr, seq) ==
    LET n == Len(mail) + 1
        row == [from |-> r, to |-> to, corr |-> IF corr = 0 THEN n ELSE corr, seq |-> seq,
                status |-> "queued"]
    IN IF call[r].made # 0 THEN Answer(r, call[r].made) /\ UNCHANGED mail
       ELSE \E late \in SUBSET OpenMail(to) :
               IF Insertable(to, late)
               THEN mail' = Append(Expired(late), row) /\ Answer(r, n)
               ELSE Refuse(r)

Underway(r, what) == call[r].what = what /\ call[r].receipt = "running"

Send(r) ==
    /\ Underway(r, "send")
    /\ Insert(r, call[r].to, 0, 1)
    /\ UNCHANGED <<head, shown, fetched, losses>>

\* The hop count of a message is its sequence less one.  A message of the kind result or
\* cancel cannot be answered, and one may name artifacts of another collaboration.
Reply(r) ==
    LET m == call[r].arg
    IN /\ Underway(r, "reply")
       /\ \/ /\ call[r].made # 0 \/ NextInConversation(m) - 1 <= MaxHops
             /\ Insert(r, mail[m].from, mail[m].corr, NextInConversation(m))
          \/ Refuse(r)
       /\ UNCHANGED <<head, shown, fetched, losses>>

\* ack_agent_messages does not look at the deadline.
Ack(r) ==
    LET m == call[r].arg
    IN /\ Underway(r, "ack")
       /\ mail' = IF mail[m].status = "delivered"
                  THEN [mail EXCEPT ![m].status = "acknowledged"] ELSE mail
       /\ Answer(r, 0)
       /\ UNCHANGED <<head, shown, fetched, losses>>

\* The receipt is settled and the tools node saved; an attempt lost between the two only
\* has its successor read the stored result.
Return(r) ==
    /\ call[r].receipt = "answered"
    /\ head' = [head EXCEPT ![r] = "before"]
    /\ call' = [call EXCEPT ![r] = NoCall]
    /\ UNCHANGED <<mail, shown, fetched, losses>>

-----------------------------------------------------------------------------
AskStep(r) ==
    \/ \E to \in Peer : AskSend(r, to)
    \/ \E m \in Ids : AskReply(r, m) \/ AskAck(r, m)

MailNext ==
    \E r \in Peer :
       \/ Lose(r) \/ Save(r) \/ AskStep(r) \/ EndRun(r)
       \/ \E late \in SUBSET OpenMail(r) : Deliver(r, late)
       \/ Begin(r) \/ Send(r) \/ Reply(r) \/ Ack(r) \/ Return(r)

MailSpec == MailInit /\ [][MailNext]_mailVars

-----------------------------------------------------------------------------
(* Properties.                                                             *)

MailTypeOK ==
    /\ Len(mail) <= MaxPerRoot
    /\ \A m \in Ids : mail[m] \in [from : Peer, to : Peer, corr : Ids, seq : Ids,
                                   status : Open \cup {"acknowledged", "expired"}]
    /\ head \in [Peer -> {"before", "model", "tools", "ended"}]
    /\ losses \in 0..MaxLosses
    /\ \A r \in Peer : /\ shown[r] \subseteq Ids /\ fetched[r].ids \subseteq Ids
                       /\ call[r].receipt \in {"none", "running", "answered", "unknown"}
                       /\ (call[r].what # "none") <=> head[r] = "tools"

\* When the model is called, every message that was delivered to the run and is still to be
\* acknowledged is before it, also one whose delivery an earlier attempt did not live to save
\* ("at-least-once delivery", agent_mailbox.py:12-15, agent_messages.py:506-545).
ModelSeesItsMail ==
    \A r \in Peer : head[r] = "model" =>
        \A m \in Addressed(r) : mail[m].status = "delivered" => m \in shown[r]

\* The messages of a conversation are numbered 1..n, however its answers cross each other
\* and are repeated, and it has MaxHops + 1 of them at most (agent_messages.py:471-489).
ConversationsAreDense ==
    \A c \in Ids :
       /\ {mail[m].seq : m \in Conversation(c)} = 1..Cardinality(Conversation(c))
       /\ Cardinality(Conversation(c)) <= MaxHops + 1
=============================================================================
