------------------------------ MODULE Tickets ------------------------------
(***************************************************************************)
(* Support tickets and the notifications in the portal:                     *)
(* ticket/ticket.controller.ts and notification/notification.service.ts     *)
(* with its controller.                                                     *)
(*                                                                          *)
(* A handler reads the ticket, creates its message, and only then saves the *)
(* ticket it read, where mongoose writes the status only if it is not the   *)
(* one that was read; other handlers come between these steps, and the      *)
(* process may die between them.                                            *)
(* Left out: subjects, texts, attachments, departments and priorities, who  *)
(* may act for a client, and e-mails.                                       *)
(***************************************************************************)
EXTENDS Integers, FiniteSets

CONSTANTS
    Tickets,      \* tickets that can be opened
    NoTicket,
    Posts,        \* requests under way
    Chosen,       \* statuses the staff sets
    MaxPosts      \* bound: requests begun

TicketNulls == NoTicket \notin Tickets
TicketStatuses == {"open", "answered", "customer_reply", "on_hold", "in_progress", "closed", "resolved"}
TicketBounds == MaxPosts \in Nat /\ Chosen \subseteq TicketStatuses /\ IsFiniteSet(Tickets)

VARIABLES
    ticket,      \* Ticket documents
    lastMessage, \* who wrote the last TicketMessage of each
    notes,       \* Notification documents there are of the staff and of the client
    post,        \* requests
    posted       \* begun: requests; heard: tickets whose last reply is the client's, with no save
                 \* by the staff during that reply or since

ticketVars == <<ticket, lastMessage, notes, post, posted>>

Sides == {"client", "staff"}
NoDoc == [number |-> 0, status |-> "none", replier |-> "none"]
Quiet == [at |-> "idle", kind |-> "none", on |-> NoTicket, number |-> 0, status |-> "none", crossed |-> FALSE]

TicketTypeOK ==
    /\ ticket \in [Tickets -> [number : 1..MaxPosts, status : TicketStatuses, replier : Sides] \cup {NoDoc}]
    /\ lastMessage \in [Tickets -> Sides \cup {"none", "note"}]
    /\ notes \in [Sides -> SUBSET {"read", "unread"}]
    /\ \A p \in Posts : /\ post[p].at \in {"idle", "create", "message", "save", "notify"}
                        /\ post[p].on \in Tickets \cup {NoTicket} /\ post[p].number \in 0..MaxPosts
    /\ posted.begun \in 0..MaxPosts /\ posted.heard \subseteq Tickets

Opened == {t \in Tickets : ticket[t] # NoDoc}

TicketInit ==
    /\ ticket = [t \in Tickets |-> NoDoc]
    /\ lastMessage = [t \in Tickets |-> "none"]
    /\ notes = [s \in Sides |-> {}]
    /\ post = [p \in Posts |-> Quiet]
    /\ posted = [begun |-> 0, heard |-> {}]

-----------------------------------------------------------------------------
(* Requests *)

Receive(p, r) ==
    /\ post[p] = Quiet /\ posted.begun < MaxPosts
    /\ post' = [post EXCEPT ![p] = r]
    /\ posted' = [posted EXCEPT !.begun = @ + 1]

Proceed(p, at) == post' = [post EXCEPT ![p] = IF at = "idle" THEN Quiet ELSE [@ EXCEPT !.at = at]]

Notify(S) == notes' = [s \in Sides |-> IF s \in S THEN notes[s] \cup {"unread"} ELSE notes[s]]

-----------------------------------------------------------------------------
(* createTicket *)

\* The number follows from a count; another creation may use it first, and the
\* unique index then fails this one.
AskCreate(p) ==
    /\ Receive(p, [Quiet EXCEPT !.at = "create", !.kind = "client", !.number = Cardinality(Opened) + 1])
    /\ UNCHANGED <<ticket, lastMessage, notes>>

NumberTaken(n) == \E t \in Opened : ticket[t].number = n
CreateTicket(p) ==
    /\ post[p].at = "create"
    /\ IF NumberTaken(post[p].number)
       THEN Proceed(p, "idle") /\ UNCHANGED ticket
       ELSE \E t \in Tickets \ Opened :
              /\ ticket' = [ticket EXCEPT ![t] = [number |-> post[p].number, status |-> "open", replier |-> "client"]]
              /\ post' = [post EXCEPT ![p].at = "message", ![p].kind = "first", ![p].on = t]
    /\ UNCHANGED <<lastMessage, notes, posted>>

-----------------------------------------------------------------------------
(* addReply *)

\* A reply of the client, of the staff, or a note of the staff for itself.
AskReply(p, t, kind) ==
    /\ t \in Opened /\ kind \in {"client", "staff", "note"}
    /\ Receive(p, [Quiet EXCEPT !.at = "message", !.kind = kind, !.on = t, !.status = ticket[t].status])
    /\ UNCHANGED <<ticket, lastMessage, notes>>

CreateMessage(p) ==
    /\ post[p].at = "message"
    /\ LET kind == IF post[p].kind = "first" THEN "client" ELSE post[p].kind IN
       lastMessage' = [lastMessage EXCEPT ![post[p].on] = kind]
    /\ Proceed(p, IF post[p].kind = "first" THEN "notify" ELSE "save")
    /\ UNCHANGED <<ticket, notes, posted>>

\* Mistake: a client's reply counts as one only after an answer.
AnswerStatusAfter(kind, seen) ==
    CASE kind = "client" -> IF seen = "answered" THEN "customer_reply" ELSE seen
      [] OTHER -> "answered"

\* A note, too, makes the ticket an answered one.
AnswerStatus(kind, seen) == IF kind = "client" THEN "customer_reply" ELSE "answered"

Written(t, seen, status) == IF status = seen THEN ticket[t].status ELSE status

\* What the staff saves crosses the replies under way.
StaffSaved(p, t, next) ==
    /\ post' = [q \in Posts |-> IF q = p THEN next ELSE IF post[q].on = t THEN [post[q] EXCEPT !.crossed = TRUE] ELSE post[q]]
    /\ posted' = [posted EXCEPT !.heard = @ \ {t}]

SaveReply(p) ==
    /\ post[p].at = "save" /\ post[p].kind \in {"client", "staff", "note"}
    /\ LET t == post[p].on  kind == post[p].kind IN
       /\ ticket' = [ticket EXCEPT ![t].status = Written(t, post[p].status, AnswerStatus(kind, post[p].status)),
                                   ![t].replier = IF kind = "client" THEN "client" ELSE "staff"]
       /\ IF kind = "client"
          THEN /\ Proceed(p, "notify")
               /\ posted' = IF post[p].crossed THEN posted ELSE [posted EXCEPT !.heard = @ \cup {t}]
          ELSE StaffSaved(p, t, IF kind = "staff" THEN [post[p] EXCEPT !.at = "notify"] ELSE Quiet)
    /\ UNCHANGED <<lastMessage, notes>>

\* Both sides hear of a new ticket, and each of the other's replies.
NotifyOpened(p) ==
    /\ post[p].at = "notify" /\ post[p].kind = "first" /\ Notify(Sides)
    /\ Proceed(p, "idle")
    /\ UNCHANGED <<ticket, lastMessage, posted>>
NotifyReplied(p) ==
    /\ post[p].at = "notify" /\ post[p].kind # "first" /\ Notify(Sides \ {post[p].kind})
    /\ Proceed(p, "idle")
    /\ UNCHANGED <<ticket, lastMessage, posted>>

-----------------------------------------------------------------------------
(* updateStatus, of the staff, and markResolved, of either *)

AskStatus(p, t, kind, s) ==
    /\ t \in Opened
    /\ \/ kind = "status" /\ s \in Chosen
       \/ kind \in {"resolve", "own"} /\ s = "resolved"
    /\ Receive(p, [Quiet EXCEPT !.at = "save", !.kind = kind, !.on = t, !.number = 0,
                                !.status = IF ticket[t].status = s THEN "none" ELSE s])
    /\ UNCHANGED <<ticket, lastMessage, notes>>

\* An unchanged status, kept here as "none", is not written.
SaveStatus(p) ==
    /\ post[p].at = "save" /\ post[p].kind \in {"status", "resolve", "own"}
    /\ LET t == post[p].on IN
       /\ ticket' = IF post[p].status = "none" THEN ticket ELSE [ticket EXCEPT ![t].status = post[p].status]
       /\ StaffSaved(p, t, Quiet)
    /\ UNCHANGED <<lastMessage, notes>>

\* A request that fails at any of its calls, or dies there.
PostFails(p) ==
    /\ post[p] # Quiet /\ Proceed(p, "idle")
    /\ UNCHANGED <<ticket, lastMessage, notes, posted>>

-----------------------------------------------------------------------------
(* The notifications of a side: one or all are read, one or all read are deleted *)

MarkRead(s) ==
    /\ "unread" \in notes[s]
    /\ \E N \in {{"read"}, {"read", "unread"}} : notes' = [notes EXCEPT ![s] = N]
MarkAllRead(s) == notes[s] # {} /\ notes' = [notes EXCEPT ![s] = {"read"}]
DeleteNote(s) == \E n \in notes[s] : notes' = [notes EXCEPT ![s] = @ \ {n}]
DeleteAllRead(s) == notes' = [notes EXCEPT ![s] = @ \ {"read"}]

NoteActions ==
    /\ \E s \in Sides : MarkRead(s) \/ MarkAllRead(s) \/ DeleteNote(s) \/ DeleteAllRead(s)
    /\ UNCHANGED <<ticket, lastMessage, post, posted>>

-----------------------------------------------------------------------------
TicketNext ==
    \/ \E p \in Posts :
          \/ AskCreate(p) \/ CreateTicket(p) \/ CreateMessage(p) \/ SaveReply(p) \/ SaveStatus(p)
          \/ NotifyOpened(p) \/ NotifyReplied(p) \/ PostFails(p)
          \/ \E t \in Tickets : \/ \E kind \in {"client", "staff", "note"} : AskReply(p, t, kind)
                                \/ \E kind \in {"status", "resolve", "own"}, s \in Chosen \cup {"resolved"} : AskStatus(p, t, kind, s)
    \/ NoteActions

TicketSpec == TicketInit /\ [][TicketNext]_ticketVars

-----------------------------------------------------------------------------
(* Properties *)

\* A client's reply asks for an answer: the ticket waits for the staff until
\* the staff, or the client by resolving it, saves the ticket again. A save
\* that crosses the reply is left out: the status it sets is then not written
\* over (ticket.controller.ts, addReply).
ReplyAsksAnswer == \A t \in posted.heard : ticket[t].status = "customer_reply"

(* The invariant ReplyAsksAnswer follows from *)

Doc == [number : Nat, status : TicketStatuses, replier : Sides]
Request == [at : {"idle", "create", "message", "save", "notify"},
            kind : {"none", "client", "first", "staff", "note", "status", "resolve", "own"},
            on : Tickets \cup {NoTicket}, number : Nat, status : TicketStatuses \cup {"none"}, crossed : BOOLEAN]
DocsOK == /\ ticket \in [Tickets -> Doc \cup {NoDoc}] /\ post \in [Posts -> Request]
          /\ posted \in [begun : Nat, heard : SUBSET Tickets]

\* A reply or a change of status is of a ticket there is.
OnOpened == \A p \in Posts : post[p].at \in {"message", "save"} => post[p].on \in Opened

\* A client's reply that no save of the staff has crossed, and that found its
\* ticket waiting for the staff already and so will not write the status, finds
\* it still waiting.
StillAsking ==
    \A p \in Posts :
       /\ post[p].at \in {"message", "save"} /\ post[p].kind = "client"
       /\ ~post[p].crossed /\ post[p].status = "customer_reply"
       => ticket[post[p].on].status = "customer_reply"

\* Numbers come from counts, so they are no more than the requests, and the unique index
\* keeps them apart; only replies write a message.
NumbersOK ==
    /\ posted.begun <= MaxPosts
    /\ \A p \in Posts : /\ post[p].number <= posted.begun /\ (post[p].at = "create" => post[p].number > 0)
                        /\ post[p].at = "message" => post[p].kind \in {"first", "client", "staff", "note"}
    /\ \A t \in Opened : ticket[t].number \in 1..posted.begun
    /\ \A t, u \in Opened : ticket[t].number = ticket[u].number => t = u
NotesOK == lastMessage \in [Tickets -> Sides \cup {"none", "note"}] /\ notes \in [Sides -> SUBSET {"read", "unread"}]

TicketInv == DocsOK /\ posted.heard \subseteq Opened /\ OnOpened /\ StillAsking /\ ReplyAsksAnswer
=============================================================================
