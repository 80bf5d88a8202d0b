-------------------------------- MODULE Chat --------------------------------
(* One chat session of control-api: posts of a user store a row and publish  *)
(* commands, the runner's events come back in batches and become assistant   *)
(* rows, a reader pages through them.                                        *)
(*                                                                           *)
(* Bounds: Turns, MaxRetries, MaxLosses.                                     *)
EXTENDS Naturals, Sequences, FiniteSets, SequencesExt

CONSTANTS Turns,        \* turn_id of each post
          Limit,        \* page size
          MaxRetries,   \* batches sent again though they were handled
          MaxLosses     \* publishes and inserts that fail

VARIABLES
    chatStatus,  \* chat_sessions.status: active, or over for ended and failed
    chatRows,        \* chat_messages by seq: role, turn_id, parent_user_id, blocks
    post,        \* turn -> step of post_chat_message
    seqOf,       \* turn -> MAX(seq) + 1 its insert read
    commands,    \* rb.agent.commands
    taken,       \* commands the runner has handled
    out,         \* events the relay has still to deliver
    content,     \* events whose batch was handled, duplicates included
    page,        \* the reader: rows read, has_more
    losses, retries,
    refused, dropped, overlapped
                 \* an insert met UNIQUE(session_id, seq); an assistant row was not stored;
                 \* a post began before another was answered

chatVars == <<chatStatus, chatRows, post, seqOf, commands, taken, out, content, page,
              losses, retries, refused, dropped, overlapped>>
postVars == <<post, seqOf, refused, overlapped>>
ingestVars == <<out, content, retries, dropped>>

NoPost == "none"
ASSUME ChatAssumption ==
    /\ NoPost \notin Turns
    /\ Limit \in Nat \ {0} /\ MaxRetries \in Nat /\ MaxLosses \in Nat

Cmd(k, t) == [kind |-> k, turn |-> t]
Row(r, t, p, b) == [role |-> r, turn |-> t, parent |-> p, blocks |-> b]

ChatInit ==
    /\ chatStatus = "active" /\ chatRows = <<>>
    /\ post = [t \in Turns |-> "idle"] /\ seqOf = [t \in Turns |-> 0]
    /\ commands = <<>> /\ taken = 0 /\ out = <<>> /\ content = <<>>
    /\ page = [got |-> 0, more |-> TRUE]
    /\ losses = 0 /\ retries = 0 /\ refused = FALSE /\ dropped = FALSE /\ overlapped = FALSE

----------------------------------------------------------------------------
(* post_chat_message.                                                        *)

PostChecks(t) ==
    /\ post[t] = "idle"
    /\ post' = [post EXCEPT ![t] = IF chatStatus = "active" THEN "checked" ELSE "answered"]
    /\ overlapped' = (overlapped \/ \E u \in Turns : post[u] \notin {"idle", "answered"})
    /\ UNCHANGED <<chatStatus, chatRows, seqOf, commands, taken, page, losses, refused, ingestVars>>
\* Mutant: MAX(seq) is read without the row lock of the session.
NoRowLock == TRUE
SessionUnlocked == \A u \in Turns : post[u] # "inserting"
InsertReads(t) ==
    /\ post[t] = "checked" /\ SessionUnlocked
    /\ seqOf' = [seqOf EXCEPT ![t] = Len(chatRows) + 1]
    /\ post' = [post EXCEPT ![t] = "inserting"]
    /\ UNCHANGED <<chatStatus, chatRows, commands, taken, page, losses, refused, overlapped, ingestVars>>
\* Another transaction may have committed that seq: UNIQUE(session_id, seq) refuses.
InsertCommits(t) ==
    /\ post[t] = "inserting"
    /\ LET free == seqOf[t] = Len(chatRows) + 1 IN
       /\ chatRows' = IF free THEN Append(chatRows, Row("user", t, NoPost, <<>>)) ELSE chatRows
       /\ post' = [post EXCEPT ![t] = IF free THEN "stored" ELSE "answered"]
       /\ refused' = (refused \/ ~free)
    /\ UNCHANGED <<chatStatus, seqOf, commands, taken, page, losses, overlapped, ingestVars>>
\* Mutant: a first message publishes its Input without waiting for the Start.
FirstInputAtOnce(t) == IF post[t] = "stored" THEN "Input" ELSE "Start"
NextCommand(t) == IF post[t] = "stored" /\ seqOf[t] = 1 THEN "Start" ELSE "Input"
Publish(t) ==
    /\ post[t] \in {"stored", "started"}
    /\ \/ /\ commands' = Append(commands, Cmd(NextCommand(t), t))
          /\ post' = [post EXCEPT ![t] = IF seqOf[t] = 1 /\ post[t] = "stored" THEN "started" ELSE "answered"]
          /\ UNCHANGED losses
       \/ /\ losses < MaxLosses /\ losses' = losses + 1    \* the handler answers an error, the row stays
          /\ post' = [post EXCEPT ![t] = "answered"]
          /\ UNCHANGED commands
    /\ UNCHANGED <<chatStatus, chatRows, seqOf, taken, page, refused, overlapped, ingestVars>>

----------------------------------------------------------------------------
(* The runner: the answer to an Input is a few events of that turn; an Input *)
(* without a session is reported as failed.                                  *)

Answers == {<<"Text", "TurnComplete">>, <<"Text", "Thinking", "UserInput">>}
RunnerTakes ==
    /\ taken < Len(commands)
    /\ taken' = taken + 1
    /\ LET c == commands[taken + 1]
           started == \E i \in 1..taken : commands[i].kind = "Start"
       IN  CASE c.kind = "Start" -> UNCHANGED <<out, chatStatus>>
             [] c.kind = "Input" /\ started ->
                  /\ \E a \in Answers : out' = out \o [i \in DOMAIN a |-> [kind |-> a[i], turn |-> c.turn]]
                  /\ UNCHANGED chatStatus
             [] OTHER -> /\ chatStatus' = IF chatStatus = "active" THEN "over" ELSE chatStatus
                         /\ UNCHANGED out
    /\ UNCHANGED <<chatRows, postVars, commands, content, retries, dropped, page, losses>>

(* patch_chat_session_status: the runner reports the end of the process.     *)
PatchChatStatus ==
    /\ \E i \in 1..taken : commands[i].kind = "Start"
    /\ chatStatus = "active"
    /\ chatStatus' = "over"
    /\ UNCHANGED <<chatRows, postVars, commands, taken, ingestVars, page, losses>>

----------------------------------------------------------------------------
(* ingest_chat_session_events: the turn being collected is text, thinking,   *)
(* blocks and the turn id of its first event.                                *)

Nothing == [text |-> <<>>, thinking |-> <<>>, blocks |-> <<>>, turn |-> NoPost, done |-> <<>>]
CommitText(p) == IF p.text = <<>> THEN p
                 ELSE [p EXCEPT !.blocks = Append(@, p.text), !.text = <<>>]
CommitThinking(p) == IF p.thinking = <<>> THEN p
                     ELSE [p EXCEPT !.blocks = Append(@, p.thinking), !.thinking = <<>>]
\* Mutant: the parent is the latest user row.
LatestUserRow(t) ==
    LET users == SelectSeq(chatRows, LAMBDA r : r.role = "user")
    IN  IF users = <<>> THEN NoPost ELSE users[Len(users)].turn
ParentOf(t) == IF \E i \in DOMAIN chatRows : chatRows[i].role = "user" /\ chatRows[i].turn = t THEN t ELSE NoPost
FlushPendingTurn(p) ==
    LET q == CommitText(CommitThinking(p)) IN
    [q EXCEPT !.blocks = <<>>, !.turn = NoPost,
              !.done = IF q.blocks = <<>> THEN @
                       ELSE Append(@, Row("assistant", q.turn, ParentOf(q.turn), q.blocks))]
\* Mutant: the text before a thinking block stays where it is and comes after it.
TakeEventUncommitted(p, e) ==
    LET q == [p EXCEPT !.turn = IF @ = NoPost THEN e.turn ELSE @] IN
    CASE e.kind = "UserInput" -> [FlushPendingTurn(p) EXCEPT !.turn = e.turn]
      [] e.kind = "Text"      -> [q EXCEPT !.text = Append(@, e)]
      [] e.kind = "Thinking"  -> [q EXCEPT !.thinking = Append(@, e)]
      [] OTHER -> p
TakeEvent(p, e) ==
    LET q == [p EXCEPT !.turn = IF @ = NoPost THEN e.turn ELSE @] IN
    CASE e.kind = "UserInput" -> [FlushPendingTurn(p) EXCEPT !.turn = e.turn]
      [] e.kind = "Text"      -> [CommitThinking(q) EXCEPT !.text = Append(@, e)]
      [] e.kind = "Thinking"  -> [CommitText(q) EXCEPT !.thinking = Append(@, e)]
      [] OTHER -> p
Collected(batch) ==
    LET p[i \in 0..Len(batch)] == IF i = 0 THEN Nothing ELSE TakeEvent(p[i - 1], batch[i])
    IN  p[Len(batch)]
AssistantRows(batch) == FlushPendingTurn(Collected(batch)).done

Ingest(n) ==
    /\ n <= Len(out) /\ SessionUnlocked
    /\ LET done == AssistantRows(SubSeq(out, 1, n)) IN
       \/ chatRows' = chatRows \o done /\ UNCHANGED <<losses, dropped>>
       \/ /\ done # <<>> /\ losses < MaxLosses /\ losses' = losses + 1   \* only logged
          /\ chatRows' = chatRows \o Tail(done) /\ dropped' = TRUE
    /\ content' = content \o SubSeq(out, 1, n)
    /\ \/ out' = SubSeq(out, n + 1, Len(out)) /\ UNCHANGED retries
       \/ retries < MaxRetries /\ retries' = retries + 1 /\ UNCHANGED out
    /\ UNCHANGED <<chatStatus, postVars, commands, taken, page>>

----------------------------------------------------------------------------
(* list_chat_messages: rows after after_seq, one more than the page.         *)

\* Mutant: asks for no row beyond the page.
FetchExact == Limit
Fetch == Limit + 1
ListChatMessages ==
    /\ page.more
    /\ LET left == Len(chatRows) - page.got
           n == IF left < Fetch THEN left ELSE Fetch
       IN  page' = [got |-> page.got + (IF n < Limit THEN n ELSE Limit), more |-> n > Limit]
    /\ UNCHANGED <<chatStatus, chatRows, postVars, commands, taken, ingestVars, losses>>

ChatNext ==
    \/ \E t \in Turns : PostChecks(t) \/ InsertReads(t) \/ InsertCommits(t) \/ Publish(t)
    \/ RunnerTakes \/ PatchChatStatus
    \/ (\E n \in 1..6 : Ingest(n)) \/ ListChatMessages
ChatSpec == ChatInit /\ [][ChatNext]_chatVars

----------------------------------------------------------------------------
(* Rows of the posts and of the runner's answers are stored at the same      *)
(* time; none is refused because of its seq.                                 *)
NoSeqConflict == ~refused

(* When posts come one after the other and no publish fails, no Input goes   *)
(* out before the Start of its session.                                      *)
StartComesFirst ==
    (~overlapped /\ losses = 0) =>
        \A j \in DOMAIN commands : commands[j].kind = "Input" => \E i \in 1..(j - 1) : commands[i].kind = "Start"

(* Reading the assistant rows one after the other gives the texts and        *)
(* thoughts of the batches handled, each once and in their order.            *)
ReadRow(r) == IF r.role = "assistant" THEN FlattenSeq(r.blocks) ELSE <<>>
Read(rows) == FlattenSeq([i \in DOMAIN rows |-> ReadRow(rows[i])])
SaidBy(e)  == IF e.kind \in {"Text", "Thinking"} THEN <<e>> ELSE <<>>
Said(es)   == FlattenSeq([i \in DOMAIN es |-> SaidBy(es[i])])
ContentKept == ~dropped => Read(chatRows) = Said(content)

(* A reader that follows has_more until it is false has had every row there  *)
(* is.                                                                       *)
PagesComplete == [][(page.more /\ ~page'.more) => page'.got = Len(chatRows)]_chatVars

(* Every assistant row has a turn and the user row of that turn before it.   *)
ParentStored ==
    \A i \in DOMAIN chatRows : chatRows[i].role = "assistant" =>
        \E j \in 1..(i - 1) : chatRows[j].role = "user" /\ chatRows[j].turn = chatRows[i].turn /\ chatRows[i].parent = chatRows[i].turn

(* Posts and the runner's answers are stored whole, in order and joined to   *)
(* their turns, and a reader gets them all.                                  *)
ChatIsComplete == [](NoSeqConflict /\ StartComesFirst /\ ContentKept /\ ParentStored) /\ PagesComplete

(* "persists each assistant turn as a single role=assistant row".            *)
OneRowPerTurn ==
    \A i, j \in DOMAIN chatRows :
        chatRows[i].role = "assistant" /\ chatRows[j].role = "assistant" /\ chatRows[i].turn = chatRows[j].turn => i = j
=============================================================================
